---- MODULE Spec2Model ----
(***************************************************************************)
(* Reasoning layer of the smart-edge CCTV pipeline.                        *)
(*                                                                         *)
(*   core/stabilizer.py          TemporalStabilizer  (class lock/unlock)   *)
(*   ai_agent/context_engine.py  BehavioralContextEngine                   *)
(*   ai_agent/spatial_engine.py  SpatialAwarenessEngine                    *)
(*   ai_agent/event_patterns.py  EventIntelligenceLayer                    *)
(*   ai_agent/agent_core.py      AIReasoningAgent (orchestrator)           *)
(*                                                                         *)
(* Time is counted in whole seconds.  Pixel coordinates are integers.      *)
(***************************************************************************)
EXTENDS Integers, Sequences, FiniteSets, TLC

None == "None"

Min(a, b) == IF a < b THEN a ELSE b

Max(a, b) == IF a > b THEN a ELSE b

\* The last n elements of a sequence (all of it when it is shorter): s[-n:].
LastN(s, n) == IF Len(s) <= n THEN s ELSE SubSeq(s, Len(s) - n + 1, Len(s))

\* deque(maxlen=m).append(x): the oldest element falls out when full.
DequeAppend(s, x, m) == LastN(Append(s, x), m)

Range(s) == {s[i] : i \in 1..Len(s)}

(***************************************************************************)
(* core/stabilizer.py : TemporalStabilizer                                 *)
(*                                                                         *)
(* A class is one value: the code keys every decision on class_id and      *)
(* carries class_name along with it.  The confidence history, the          *)
(* statistics counters (frame_number, total_locks, total_unlocks,          *)
(* total_detections, locked_at_frame) and first_seen feed no decision and  *)
(* no returned class or lock flag, and are left out.                       *)
(***************************************************************************)

\* Bounds of the stabilizer model.
StabMaxTime == 11

StabMaxStable == 12

StabTrackIds == {1}

StabClasses == {"bottle", "dog"}

\* Wall-clock steps between calls: at, and just over, stale_timeout.
StabClockSteps == {5, 6}

\* Program constants (TemporalStabilizer.__init__ defaults, deque maxlen).
history_maxlen == 10

history_size == 10

lock_threshold == 5

unlock_threshold == 8

stale_timeout == 5

VARIABLES
    stab_tracks,        \* TemporalStabilizer.tracks : track_id -> TrackHistory
    stab_clock,         \* time.time()
    stab_ret,           \* what the last update() returned (track_id 0: no call yet)
    stab_obs            \* observer of the update stream (not program state)

stabVars == <<stab_tracks, stab_clock, stab_ret, stab_obs>>

\* The reasoning agent's layers (ai_agent/agent_core.py), the arguments and the
\* result of the latest call, and the threads and locks; see the agent below.
VARIABLES temporal_layer, context_engine, spatial_engine, event_layer,
          frame_count, clock, frame, object_states, result,
          pf, cl, ex, agent_lock, ctx_lock,
          severity_engine, severity_ret, level_ret

engineVars == <<temporal_layer, context_engine, spatial_engine, event_layer>>

callVars == <<frame_count, clock, frame, object_states, result>>

threadVars == <<pf, cl, ex, agent_lock, ctx_lock>>

sevVars == <<severity_engine, severity_ret, level_ret>>

agentVars == <<engineVars, callVars, threadVars, sevVars>>

NewTrackHistory(now) ==
    [class_history |-> <<>>, locked_class |-> None,
     consecutive_stable |-> 0, last_seen |-> now]

add_detection(track, class_id, now) ==
    LET h == DequeAppend(track.class_history, class_id, history_maxlen)
        cs == IF Len(h) >= 2
                THEN IF h[Len(h) - 1] = class_id
                       THEN track.consecutive_stable + 1
                       ELSE 1
                ELSE 1
    IN  [track EXCEPT !.class_history = h,
                      !.consecutive_stable = cs,
                      !.last_seen = now]

\* Votes of class c in the history.
Votes(h, c) == Cardinality({i \in 1..Len(h) : h[i] = c})

FirstIndex(h, c) == CHOOSE i \in 1..Len(h) : h[i] = c /\ \A j \in 1..(i - 1) : h[j] # c

\* max(class_votes, key=class_votes.get): the dict is filled in history order,
\* and max returns the first key among those with the most votes.
get_majority_class(track) ==
    LET h == track.class_history
    IN  IF Len(h) = 0 THEN None
        ELSE CHOOSE c \in Range(h) :
                \A d \in Range(h) :
                    \/ Votes(h, c) > Votes(h, d)
                    \/ Votes(h, c) = Votes(h, d) /\ FirstIndex(h, c) <= FirstIndex(h, d)

should_lock_single(track, min_consecutive) ==
    /\ track.locked_class = None
    /\ Len(track.class_history) >= min_consecutive - 1
    /\ Cardinality(Range(LastN(track.class_history, min_consecutive - 1))) = 1

should_lock(track, min_consecutive) ==
    /\ track.locked_class = None
    /\ Len(track.class_history) >= min_consecutive
    /\ Cardinality(Range(LastN(track.class_history, min_consecutive))) = 1

Contradictions(h, cls, window) ==
    LET recent == LastN(h, window)
    IN  Cardinality({i \in 1..Len(recent) : recent[i] # cls})

should_unlock_flicker(track, min_contradictions, window) ==
    /\ track.locked_class # None
    /\ Contradictions(track.class_history, track.locked_class, window) >= 1

should_unlock_strict(track, min_contradictions, window) ==
    /\ track.locked_class # None
    /\ Len(track.class_history) >= window
    /\ Contradictions(track.class_history, track.locked_class, window)
          > min_contradictions + 1

\* The unlock test passing with one contradiction less.
should_unlock_one_early(track, min_contradictions, window) ==
    /\ track.locked_class # None
    /\ Len(track.class_history) >= window
    /\ Contradictions(track.class_history, track.locked_class, window)
          >= min_contradictions - 1

should_unlock(track, min_contradictions, window) ==
    /\ track.locked_class # None
    /\ Len(track.class_history) >= window
    /\ Contradictions(track.class_history, track.locked_class, window)
          >= min_contradictions

\* TemporalStabilizer.update: the track after the call and the returned
\* (stable class, is_locked).
StabUpdated(tracks, track_id, class_id, now) ==
    LET t0 == IF track_id \in DOMAIN tracks
                THEN tracks[track_id] ELSE NewTrackHistory(now)
        t1 == add_detection(t0, class_id, now)
        t2 == IF should_lock(t1, lock_threshold)
                THEN [t1 EXCEPT !.locked_class = class_id]
                ELSE IF should_unlock(t1, unlock_threshold, history_size)
                       THEN [t1 EXCEPT !.locked_class = None]
                       ELSE t1
        ret == IF t2.locked_class # None
                 THEN [cls |-> t2.locked_class, is_locked |-> TRUE]
                 ELSE [cls |-> get_majority_class(t2), is_locked |-> FALSE]
    IN  [track |-> t2, ret |-> ret]

\* The observer: per track, for the updates its current TrackHistory has
\* received: the last history_size classes fed, whether lock_threshold equal
\* classes in a row were ever fed, the class the track was locked to before the
\* last update, and the number of consecutive updates that started locked to a
\* class and returned that class locked (capped at history_size).
NewObs == [fed |-> <<>>, had_run |-> FALSE, before |-> None, streak |-> 0]

\* The last n classes fed are n equal classes.
RunOf(fed, n) == Len(fed) >= n /\ Cardinality(Range(LastN(fed, n))) = 1

ObsAfter(o, before, class_id, ret) ==
    LET fed == DequeAppend(o.fed, class_id, history_size)
        held == /\ before # None
                /\ ret.is_locked
                /\ ret.cls = before
    IN  [fed |-> fed,
         had_run |-> o.had_run \/ RunOf(fed, lock_threshold),
         before |-> before,
         streak |-> IF held THEN Min(o.streak + 1, history_size) ELSE 0]

LockedBefore(track_id) ==
    IF track_id \in DOMAIN stab_tracks THEN stab_tracks[track_id].locked_class ELSE None

TemporalStabilizer_update(track_id, class_id) ==
    LET r == StabUpdated(stab_tracks, track_id, class_id, stab_clock)
    IN  /\ r.track.consecutive_stable <= StabMaxStable
        /\ stab_tracks' = [t \in DOMAIN stab_tracks \cup {track_id} |->
                              IF t = track_id THEN r.track ELSE stab_tracks[t]]
        /\ stab_ret' = [track_id |-> track_id, cls |-> r.ret.cls,
                        is_locked |-> r.ret.is_locked]
        /\ stab_obs' = [stab_obs EXCEPT ![track_id] =
                           ObsAfter(@, LockedBefore(track_id), class_id, r.ret)]
        /\ UNCHANGED <<stab_clock, agentVars>>

StaleIds(tracks, now) ==
    {t \in DOMAIN tracks : now - tracks[t].last_seen > stale_timeout}

cleanup_stale_tracks ==
    LET stale == StaleIds(stab_tracks, stab_clock)
    IN  /\ stale # {}
        /\ stab_tracks' = [t \in DOMAIN stab_tracks \ stale |-> stab_tracks[t]]
        /\ stab_obs' = [t \in StabTrackIds |->
                           IF t \in stale THEN NewObs ELSE stab_obs[t]]
        /\ UNCHANGED <<stab_clock, stab_ret, agentVars>>

TemporalStabilizer_reset ==
    /\ DOMAIN stab_tracks # {}
    /\ stab_tracks' = <<>>
    /\ stab_obs' = [t \in StabTrackIds |-> NewObs]
    /\ UNCHANGED <<stab_clock, stab_ret, agentVars>>

StabTick(d) ==
    /\ stab_clock + d <= StabMaxTime
    /\ stab_clock' = stab_clock + d
    /\ UNCHANGED <<stab_tracks, stab_ret, stab_obs, agentVars>>

StabInit ==
    /\ stab_tracks = <<>>
    /\ stab_clock = 0
    /\ stab_ret = [track_id |-> 0, cls |-> None, is_locked |-> FALSE]
    /\ stab_obs = [t \in StabTrackIds |-> NewObs]

StabNext ==
    \/ \E t \in StabTrackIds, c \in StabClasses : TemporalStabilizer_update(t, c)
    \/ cleanup_stale_tracks
    \/ TemporalStabilizer_reset
    \/ \E d \in StabClockSteps : StabTick(d)

(***************************************************************************)
(* ai_agent/context_engine.py : BehavioralContextEngine                    *)
(*                                                                         *)
(* Units.  A bounding-box coordinate is counted in 1/BBoxScale pixel, so   *)
(* that the mean of up to 5 boxes (temporal_smoothing._smooth_bbox) is an  *)
(* integer; a centroid (x1+x2)/2 is kept doubled, in 1/PosScale pixel.     *)
(* The velocity over the smoothing window is                               *)
(*     mean(diff(last 5 positions)) * fps = (p[-1] - p[-5]) / 4 * 30,      *)
(* kept as the difference p[-1] - p[-5] in position units, which is the    *)
(* velocity in 1/VelScale px/s (VelScale = PosScale * 4 / 30).             *)
(*                                                                         *)
(* An Optional number or set is None or the 1-tuple of its value.          *)
(*                                                                         *)
(* A dict is a sequence of records in insertion order (Python dicts        *)
(* iterate in insertion order, and the engines depend on it).              *)
(* _direction and _distance_traveled feed no decision, and the statistics  *)
(* counters are unbounded; they are left out.                              *)
(***************************************************************************)

BBoxScale == 60

PosScale == 120

VelScale == 16

\* BehavioralContextEngine.__init__ defaults.
loitering_threshold == 10

velocity_smoothing == 5

acceleration_threshold == 50

erratic_movement_threshold == 3

disappearance_timeout == 2

max_history_size == 300

confidences_maxlen == 50

fps == 30

\* Speed thresholds of _analyze_behavior, px/s.
loiter_speed == 10

stopped_speed == 5

fast_speed == 100

erratic_window == 10

Abs(x) == IF x < 0 THEN 0 - x ELSE x

RECURSIVE ISqrtIn(_, _, _)
\* The largest r in lo..hi with r*r <= n.
ISqrtIn(n, lo, hi) ==
    IF lo >= hi THEN lo
    ELSE LET mid == (lo + hi + 1) \div 2
         IN  IF mid * mid <= n THEN ISqrtIn(n, mid, hi) ELSE ISqrtIn(n, lo, mid - 1)

\* floor(sqrt(n)) for 0 <= n < 2^30.
ISqrt(n) == ISqrtIn(n, 0, 32767)

RECURSIVE SumSeq(_)
SumSeq(s) == IF s = <<>> THEN 0 ELSE Head(s) + SumSeq(Tail(s))

\* ---- dicts keyed by track_id, in insertion order ----
Ids(objs) == {objs[i].track_id : i \in 1..Len(objs)}

IndexOf(objs, tid) == CHOOSE i \in 1..Len(objs) : objs[i].track_id = tid

Get(objs, tid) == objs[IndexOf(objs, tid)]

\* d[tid] = obj : in place for an existing key, at the end for a new one.
Put(objs, obj) ==
    IF obj.track_id \in Ids(objs)
      THEN [objs EXCEPT ![IndexOf(objs, obj.track_id)] = obj]
      ELSE Append(objs, obj)

RECURSIVE Without(_, _)
\* del d[tid] for every tid in gone.
Without(objs, gone) ==
    IF objs = <<>> THEN <<>>
    ELSE IF Head(objs).track_id \in gone
           THEN Without(Tail(objs), gone)
           ELSE <<Head(objs)>> \o Without(Tail(objs), gone)

NewObjectState(track_id, class_name, timestamp) ==
    [track_id |-> track_id, class_name |-> class_name,
     first_seen |-> timestamp, last_seen |-> timestamp,
     positions |-> <<>>, bboxes |-> <<>>, confidences |-> <<>>,
     velocity |-> None, acceleration |-> None,
     is_loitering |-> FALSE, is_accelerating |-> FALSE, disappeared |-> FALSE,
     dwell_time |-> 0, motion_pattern |-> "NORMAL",
     zones_entered |-> {}, zones_exited |-> {}, current_zone |-> None]

\* ObjectState.get_centroid: None when there is no position.
get_centroid(obj) ==
    IF obj.positions = <<>> THEN None ELSE obj.positions[Len(obj.positions)]

\* _compute_centroid, doubled: ((x1+x2)/2, (y1+y2)/2) in 1/PosScale pixel.
compute_centroid(bbox) == <<bbox[1] + bbox[3], bbox[2] + bbox[4]>>

NormSq(v) == v[1] * v[1] + v[2] * v[2]

\* get_velocity_magnitude() squared, in (1/VelScale px/s)^2; 0.0 without a velocity.
SpeedSq(obj) == IF obj.velocity = None THEN 0 ELSE NormSq(obj.velocity)

\* get_velocity_magnitude() < px_per_s, and > px_per_s.
SpeedBelow(obj, px_per_s) == SpeedSq(obj) < (VelScale * px_per_s) * (VelScale * px_per_s)

SpeedAbove(obj, px_per_s) == SpeedSq(obj) > (VelScale * px_per_s) * (VelScale * px_per_s)

\* The velocity over the last velocity_smoothing positions of ps.
WindowVelocity(ps) ==
    LET n == Len(ps)
    IN  <<ps[n][1] - ps[n - velocity_smoothing + 1][1],
          ps[n][2] - ps[n - velocity_smoothing + 1][2]>>

\* (curr_vel - prev_vel) / (velocity_smoothing / fps), in 1/8 px/s^2, the two
\* speeds taken to the 1/VelScale px/s below:
\*   6 * (c - p) / VelScale px/s^2 = 3 * (c - p) / 8 px/s^2.
AccelScale == 8

Acceleration(ps, velocity) ==
    LET n == Len(ps)
        prev == <<ps[n - velocity_smoothing][1] - ps[n - 2 * velocity_smoothing + 1][1],
                  ps[n - velocity_smoothing][2] - ps[n - 2 * velocity_smoothing + 1][2]>>
    IN  3 * (ISqrt(NormSq(velocity)) - ISqrt(NormSq(prev)))

\* 81 times the variance (np.std squared, ddof = 0) of nine numbers.
Var81(ds) ==
    LET sq == [i \in 1..Len(ds) |-> ds[i] * ds[i]]
    IN  Len(ds) * SumSeq(sq) - SumSeq(ds) * SumSeq(ds)

\* np.mean(np.std(np.diff(positions[-10:]), axis=0)) > threshold (px), the two
\* standard deviations taken to the position unit below.
IsErratic(ps, threshold) ==
    LET w == LastN(ps, erratic_window)
        dx == [i \in 1..(Len(w) - 1) |-> w[i + 1][1] - w[i][1]]
        dy == [i \in 1..(Len(w) - 1) |-> w[i + 1][2] - w[i][2]]
    IN  ISqrt(Var81(dx)) + ISqrt(Var81(dy)) > 2 * (Len(w) - 1) * PosScale * threshold

compute_motion_metrics(obj, timestamp) ==
    IF Len(obj.positions) < 2 THEN obj
    ELSE LET ps == obj.positions
             vel == IF Len(ps) >= velocity_smoothing
                      THEN WindowVelocity(ps) ELSE obj.velocity
             acc == IF Len(ps) >= velocity_smoothing * 2
                      THEN <<Acceleration(ps, vel)>> ELSE obj.acceleration
         IN  [obj EXCEPT !.velocity = vel,
                         !.acceleration = acc,
                         !.dwell_time = timestamp - obj.first_seen]

\* The motion-pattern classification of _analyze_behavior (lines 292-311);
\* `pattern` is the value left by the loitering branch above it.
classify_motion(obj, pattern, accelerating) ==
    IF SpeedBelow(obj, stopped_speed) THEN "STOPPED"
    ELSE IF SpeedAbove(obj, fast_speed)
           THEN IF accelerating THEN "FAST_ACCELERATION" ELSE "FAST"
    ELSE IF Len(obj.positions) >= erratic_window
           THEN IF Len(LastN(obj.positions, erratic_window)) - 1 > 2
                  THEN IF IsErratic(obj.positions, erratic_movement_threshold)
                         THEN "ERRATIC" ELSE "NORMAL"
                  ELSE pattern
    ELSE "NORMAL"

analyze_behavior(obj, timestamp) ==
    LET loiter == SpeedBelow(obj, loiter_speed) /\ obj.dwell_time > loitering_threshold
        pattern == IF loiter THEN "LOITERING" ELSE obj.motion_pattern
        accel == /\ obj.acceleration # None
                 /\ obj.acceleration[1] # 0
                 /\ Abs(obj.acceleration[1]) > AccelScale * acceleration_threshold
    IN  [obj EXCEPT !.is_loitering = loiter,
                    !.is_accelerating = accel,
                    !.motion_pattern = classify_motion(obj, pattern, accel)]

\* The body of update()'s loop for one detection (lines 163-198).
ctx_update_one(objs, det, timestamp) ==
    LET o0 == IF det.track_id \in Ids(objs)
                THEN [Get(objs, det.track_id) EXCEPT !.last_seen = timestamp,
                                                     !.disappeared = FALSE]
                ELSE NewObjectState(det.track_id, det.class_name, timestamp)
        o1 == [o0 EXCEPT
                 !.positions = DequeAppend(@, compute_centroid(det.bbox), max_history_size),
                 !.bboxes = DequeAppend(@, det.bbox, max_history_size),
                 !.confidences = DequeAppend(@, det.confidence, confidences_maxlen)]
    IN  Put(objs, analyze_behavior(compute_motion_metrics(o1, timestamp), timestamp))

RECURSIVE ctx_update_all(_, _, _)
ctx_update_all(objs, dets, timestamp) ==
    IF dets = <<>> THEN objs
    ELSE ctx_update_all(ctx_update_one(objs, Head(dets), timestamp), Tail(dets), timestamp)

DetIds(dets) == {dets[i].track_id : i \in 1..Len(dets)}

mark_disappeared_at_once(obj, current_ids, timestamp) ==
    IF obj.track_id \notin current_ids
      THEN [obj EXCEPT !.disappeared = TRUE]
      ELSE obj

\* Lines 200-206: an object not in the frame is flagged once it has been
\* unseen for longer than the timeout.
mark_disappeared(obj, current_ids, timestamp) ==
    IF /\ obj.track_id \notin current_ids
       /\ timestamp - obj.last_seen > disappearance_timeout
      THEN [obj EXCEPT !.disappeared = TRUE]
      ELSE obj

\* BehavioralContextEngine.update: self.objects after the call.
BehavioralContextEngine_update(objs, frame_detections, timestamp) ==
    LET seen == ctx_update_all(objs, frame_detections, timestamp)
    IN  [i \in 1..Len(seen) |->
            mark_disappeared(seen[i], DetIds(frame_detections), timestamp)]

\* cleanup_old_objects: the objects that stay.
cleanup_old_objects(objs, max_age_seconds, now) ==
    Without(objs, {objs[i].track_id : i \in
                     {j \in 1..Len(objs) : now - objs[j].last_seen > max_age_seconds}})

(***************************************************************************)
(* ai_agent/spatial_engine.py : SpatialAwarenessEngine                     *)
(*                                                                         *)
(* A polygon vertex is in whole pixels.  severity_weight is counted in     *)
(* tenths, a severity is a fraction <<numerator, denominator>>.  The       *)
(* violation log self.violations and Zone.violations_count only grow and   *)
(* feed statistics; they are left out, as are the fields no rule reads     *)
(* (name, entry/exit direction).                                           *)
(***************************************************************************)

WeightScale == 10

SecondsPerDay == 86400

\* datetime.time() of a timestamp, in seconds since midnight.
time_of_day(timestamp) == timestamp % SecondsPerDay

ZoneIds(zones) == {zones[i].zone_id : i \in 1..Len(zones)}

ZoneIndex(zones, zid) == CHOOSE i \in 1..Len(zones) : zones[i].zone_id = zid

ZoneGet(zones, zid) == zones[ZoneIndex(zones, zid)]

\* Zone(...): the dataclass defaults, overridden by what add_zone is given.
NewZone(zone_id, polygon, zone_type, kwargs) ==
    [zone_id |-> zone_id, polygon |-> polygon, zone_type |-> zone_type,
     allowed_classes |-> kwargs.allowed_classes,
     denied_classes |-> kwargs.denied_classes,
     allowed_time_start |-> kwargs.allowed_time_start,
     allowed_time_end |-> kwargs.allowed_time_end,
     max_occupancy |-> kwargs.max_occupancy,
     current_occupancy |-> 0,
     severity_weight |-> kwargs.severity_weight,
     active |-> kwargs.active]

\* The Zone dataclass defaults (weight 1.0, max_occupancy 100, active).
ZoneDefaults ==
    [allowed_classes |-> None, denied_classes |-> None,
     allowed_time_start |-> None, allowed_time_end |-> None,
     max_occupancy |-> 100, severity_weight |-> WeightScale, active |-> TRUE]

\* SpatialAwarenessEngine.add_zone: self.zones[zone_id] = zone.
add_zone(zones, zone_id, polygon, zone_type, kwargs) ==
    LET zone == NewZone(zone_id, polygon, zone_type, kwargs)
    IN  IF zone_id \in ZoneIds(zones)
          THEN [zones EXCEPT ![ZoneIndex(zones, zone_id)] = zone]
          ELSE Append(zones, zone)

\* One edge of the ray casting loop (lines 282-288): does the edge p1-p2 toggle
\* `inside` for the point (x, y)?  The point is in position units, the vertices
\* in pixels.  x <= xinters with
\*   xinters = (y - p1y) * (p2x - p1x) / (p2y - p1y) + p1x
\* is decided without the division.  p1y = p2y cannot get past the two tests
\* on y, so the stale xinters of line 285 is never read.
EdgeToggles(x, y, p1, p2) ==
    LET p1x == PosScale * p1[1]
        p1y == PosScale * p1[2]
        p2x == PosScale * p2[1]
        p2y == PosScale * p2[2]
        lhs == (x - p1x) * (p2y - p1y)
        rhs == (y - p1y) * (p2x - p1x)
    IN  /\ y > Min(p1y, p2y)
        /\ y <= Max(p1y, p2y)
        /\ x <= Max(p1x, p2x)
        /\ \/ p1x = p2x
           \/ IF p2y > p1y THEN lhs <= rhs ELSE lhs >= rhs

\* The parity of the edges whose y range holds the point, the tests on x left out.
point_in_polygon_y_only(point, polygon) ==
    LET n == Len(polygon)
        toggles == {i \in 1..n :
                      LET p1y == PosScale * polygon[i][2]
                          p2y == PosScale * polygon[(i % n) + 1][2]
                      IN  point[2] > Min(p1y, p2y) /\ point[2] <= Max(p1y, p2y)}
    IN  Cardinality(toggles) % 2 = 1

\* _point_in_polygon: the parity of the toggling edges.
point_in_polygon(point, polygon) ==
    LET n == Len(polygon)
        toggles == {i \in 1..n :
                      EdgeToggles(point[1], point[2], polygon[i], polygon[(i % n) + 1])}
    IN  Cardinality(toggles) % 2 = 1

RECURSIVE SelectZoneIds(_, _)
\* _find_zones_containing_point: the ids of the active zones holding the point,
\* in the order of self.zones.
SelectZoneIds(zones, point) ==
    IF zones = <<>> THEN <<>>
    ELSE LET z == Head(zones)
             rest == SelectZoneIds(Tail(zones), point)
         IN  IF z.active /\ point_in_polygon(point, z.polygon)
               THEN <<z.zone_id>> \o rest ELSE rest

find_zones_containing_point(zones, point) == SelectZoneIds(zones, point)

Violation(track_id, zone, vtype, timestamp, obj, severity) ==
    [track_id |-> track_id, zone_id |-> zone.zone_id, violation_type |-> vtype,
     timestamp |-> timestamp, position |-> get_centroid(obj),
     class_name |-> obj.class_name, severity |-> severity]

restricted_rule_without_elif(track_id, obj, zone, timestamp) ==
    IF zone.zone_type # "restricted" THEN <<>>
    ELSE (IF /\ zone.denied_classes # None
             /\ obj.class_name \in zone.denied_classes[1]
            THEN <<Violation(track_id, zone, "restricted_access", timestamp, obj,
                             <<8 * zone.severity_weight, 10 * WeightScale>>)>>
            ELSE <<>>)
         \o (IF /\ zone.allowed_classes # None
                /\ obj.class_name \notin zone.allowed_classes[1]
               THEN <<Violation(track_id, zone, "restricted_access", timestamp, obj,
                                <<7 * zone.severity_weight, 10 * WeightScale>>)>>
               ELSE <<>>)

\* Rule 1 (lines 306-331).  `zone.denied_classes and ...`: an empty set is falsy.
restricted_rule(track_id, obj, zone, timestamp) ==
    IF zone.zone_type # "restricted" THEN <<>>
    ELSE IF /\ zone.denied_classes # None
            /\ zone.denied_classes[1] # {}
            /\ obj.class_name \in zone.denied_classes[1]
      THEN <<Violation(track_id, zone, "restricted_access", timestamp, obj,
                       <<8 * zone.severity_weight, 10 * WeightScale>>)>>
    ELSE IF /\ zone.allowed_classes # None
            /\ \/ zone.allowed_classes[1] = {}
               \/ obj.class_name \notin zone.allowed_classes[1]
      THEN <<Violation(track_id, zone, "restricted_access", timestamp, obj,
                       <<7 * zone.severity_weight, 10 * WeightScale>>)>>
    ELSE <<>>

\* Rule 2 (lines 333-347).  time(0, 0) is truthy since Python 3.5.
time_rule(track_id, obj, zone, timestamp) ==
    IF /\ zone.zone_type = "time_restricted"
       /\ zone.allowed_time_start # None
       /\ zone.allowed_time_end # None
       /\ ~(/\ zone.allowed_time_start[1] <= time_of_day(timestamp)
            /\ time_of_day(timestamp) <= zone.allowed_time_end[1])
      THEN <<Violation(track_id, zone, "time_violation", timestamp, obj,
                       <<6 * zone.severity_weight, 10 * WeightScale>>)>>
      ELSE <<>>

\* Rule 3 (lines 349-362).
entry_only_rule(track_id, obj, zone, timestamp, prev_zone, object_zones) ==
    IF /\ zone.zone_type = "entry_only"
       /\ prev_zone = zone.zone_id
       /\ track_id \notin DOMAIN object_zones
      THEN <<Violation(track_id, zone, "exit_violation", timestamp, obj,
                       <<7 * zone.severity_weight, 10 * WeightScale>>)>>
      ELSE <<>>

\* Rule 4 (lines 364-377).
exit_only_rule(track_id, obj, zone, timestamp, prev_zone) ==
    IF /\ zone.zone_type = "exit_only"
       /\ prev_zone # zone.zone_id
      THEN <<Violation(track_id, zone, "entry_violation", timestamp, obj,
                       <<7 * zone.severity_weight, 10 * WeightScale>>)>>
      ELSE <<>>

\* Rule 5 (lines 379-390): 0.5 * (current_occupancy / max_occupancy).
crowd_rule(track_id, obj, zone, timestamp) ==
    IF zone.current_occupancy > zone.max_occupancy
      THEN <<Violation(track_id, zone, "crowd_limit_exceeded", timestamp, obj,
                       <<5 * zone.current_occupancy, 10 * zone.max_occupancy>>)>>
      ELSE <<>>

check_zone_violations(track_id, obj, zone, timestamp, prev_zone, object_zones) ==
    restricted_rule(track_id, obj, zone, timestamp)
    \o time_rule(track_id, obj, zone, timestamp)
    \o entry_only_rule(track_id, obj, zone, timestamp, prev_zone, object_zones)
    \o exit_only_rule(track_id, obj, zone, timestamp, prev_zone)
    \o crowd_rule(track_id, obj, zone, timestamp)

\* The spatial engine's state with the object states it mutates:
\*   zones, object_zones (track_id -> zone_id), object_zone_history
\*   (track_id -> zone ids), objs, and the violations of this update.
RECURSIVE ZoneViolations(_, _, _, _, _)
\* Lines 215-227 for the zones of current_zones, in order.
ZoneViolations(st, obj, current_zones, timestamp, prev_zone) ==
    IF current_zones = <<>> THEN <<>>
    ELSE check_zone_violations(obj.track_id, obj, ZoneGet(st.zones, Head(current_zones)),
                               timestamp, prev_zone, st.object_zones)
         \o ZoneViolations(st, obj, Tail(current_zones), timestamp, prev_zone)

DictSet(d, k, v) == [x \in DOMAIN d \cup {k} |-> IF x = k THEN v ELSE d[x]]

DictDel(d, k) == [x \in DOMAIN d \ {k} |-> d[x]]

\* The loop body of update() for one object (lines 197-246).
spatial_update_one(st, i, timestamp) ==
    LET obj == st.objs[i]
        tid == obj.track_id
        centroid == get_centroid(obj)
    IN  IF obj.disappeared \/ centroid = None THEN st
        ELSE
        LET current_zones == find_zones_containing_point(st.zones, centroid)
            inside == Range(current_zones)
            zones1 == [k \in 1..Len(st.zones) |->
                         IF st.zones[k].zone_id \in inside
                           THEN [st.zones[k] EXCEPT !.current_occupancy = @ + 1]
                           ELSE st.zones[k]]
            st1 == [st EXCEPT !.zones = zones1]
            prev_zone == IF tid \in DOMAIN st.object_zones
                           THEN st.object_zones[tid] ELSE None
            found == ZoneViolations(st1, obj, current_zones, timestamp, prev_zone)
            hist0 == IF tid \in DOMAIN st.object_zone_history
                       THEN st.object_zone_history[tid] ELSE {}
            hist1 == IF current_zones = <<>>
                       THEN st.object_zone_history
                       ELSE DictSet(st.object_zone_history, tid, hist0 \cup inside)
            entered == obj.zones_entered \cup (inside \ hist0)
            obj1 == IF current_zones # <<>>
                      THEN [obj EXCEPT !.zones_entered = entered,
                                       !.current_zone = current_zones[1]]
                      ELSE IF tid \in DOMAIN st.object_zones
                             THEN [obj EXCEPT !.zones_exited = @ \cup {st.object_zones[tid]},
                                              !.current_zone = None]
                             ELSE obj
            oz1 == IF current_zones # <<>>
                     THEN DictSet(st.object_zones, tid, current_zones[1])
                     ELSE DictDel(st.object_zones, tid)
        IN  [zones |-> zones1, object_zones |-> oz1, object_zone_history |-> hist1,
             objs |-> [st.objs EXCEPT ![i] = obj1],
             violations |-> st.violations \o found]

RECURSIVE spatial_update_from(_, _, _)
spatial_update_from(st, i, timestamp) ==
    IF i > Len(st.objs) THEN st
    ELSE spatial_update_from(spatial_update_one(st, i, timestamp), i + 1, timestamp)

keep_occupancy(zones) == zones

\* Lines 192-194: zone.current_occupancy = 0 for every zone.
reset_occupancy(zones) ==
    [k \in 1..Len(zones) |-> [zones[k] EXCEPT !.current_occupancy = 0]]

\* SpatialAwarenessEngine.update: occupancy reset, then every object in the dict's
\* order; the result holds the new violations and the mutated object states.
SpatialAwarenessEngine_update(sp, objs, timestamp) ==
    spatial_update_from(
        [zones |-> reset_occupancy(sp.zones),
         object_zones |-> sp.object_zones,
         object_zone_history |-> sp.object_zone_history,
         objs |-> objs,
         violations |-> <<>>],
        1, timestamp)

(***************************************************************************)
(* ai_agent/event_patterns.py : EventIntelligenceLayer                     *)
(*                                                                         *)
(* An event_id f"{kind}_{ids}_{timestamp}" is the tuple <<kind, ids,       *)
(* timestamp>>.  A severity_score is a fraction, a confidence is in        *)
(* percent.  reason, evidence and transition_timestamps are text and wall  *)
(* clock readings that feed no decision; the statistics counters only      *)
(* grow; person_proximities keeps a list of distances per pair that is     *)
(* never read, so only its keys are kept.                                  *)
(***************************************************************************)

\* EventIntelligenceLayer.__init__ defaults, and the literals of the detectors.
theft_concealment_time == 2

theft_exit_velocity == 80

theft_proximity == 50

fight_proximity_threshold == 100

fight_velocity_threshold == 60

abandoned_static_time == 30

abandoned_distance_threshold == 200

abandoned_static_speed == 2

loitering_time_threshold == 15

loitering_movement_threshold == 50

crowd_min_size == 10

crowd_emit_size == 20

fall_velocity_threshold == 100

\* fall_aspect_ratio_change = 0.5, in tenths.
fall_aspect_ratio_change == 5

event_max_age == 60

TheftObjectClasses == {"backpack", "handbag", "suitcase", "laptop", "bottle"}

AbandonedObjectClasses == {"backpack", "handbag", "suitcase", "laptop"}

RECURSIVE Flatten(_)
Flatten(ss) == IF ss = <<>> THEN <<>> ELSE Head(ss) \o Flatten(Tail(ss))

Keep(objs, Test(_)) == SelectSeq(objs, Test)

IsPerson(o) == o.class_name = "person" /\ ~o.disappeared

Persons(objs) == SelectSeq(objs, IsPerson)

\* np.linalg.norm(a - b) < px, for two centroids.
Closer(a, b, px) ==
    NormSq(<<a[1] - b[1], a[2] - b[2]>>) < (PosScale * px) * (PosScale * px)

Farther(a, b, px) ==
    NormSq(<<a[1] - b[1], a[2] - b[2]>>) > (PosScale * px) * (PosScale * px)

NewEvent(event_id, event_type, state, track_ids, timestamp, location, zone_id, duration, severity_score, confidence) ==
    [event_id |-> event_id, event_type |-> event_type, state |-> state,
     track_ids |-> track_ids, timestamp |-> timestamp, location |-> location,
     zone_id |-> zone_id, duration |-> duration,
     severity_score |-> severity_score, confidence |-> confidence,
     state_history |-> <<>>, resolved |-> FALSE, resolution_timestamp |-> None]

\* Event.transition_state
transition_state(event, new_state) ==
    IF new_state # event.state
      THEN [event EXCEPT !.state_history = Append(@, event.state), !.state = new_state]
      ELSE event

\* ---- theft (lines 218-297) ----
TheftObjects(objs) ==
    LET IsObj(o) == o.class_name \in TheftObjectClasses /\ ~o.disappeared
    IN  SelectSeq(objs, IsObj)

TheftStart(inter, person, obj, timestamp) ==
    IF <<person.track_id, obj.track_id>> \in DOMAIN inter
      THEN inter[<<person.track_id, obj.track_id>>] ELSE timestamp

TheftNear(person, obj) ==
    Closer(get_centroid(person), get_centroid(obj), theft_proximity)

TheftFires(inter, person, obj, timestamp) ==
    /\ TheftNear(person, obj)
    /\ timestamp - TheftStart(inter, person, obj, timestamp) > theft_concealment_time
    /\ SpeedAbove(person, theft_exit_velocity)

TheftEvent(inter, person, obj, timestamp) ==
    NewEvent(<<"theft", <<person.track_id, obj.track_id>>, timestamp>>,
             "theft_suspected", "SUSPICIOUS", <<person.track_id, obj.track_id>>,
             timestamp, get_centroid(person), person.current_zone,
             timestamp - TheftStart(inter, person, obj, timestamp), <<8, 10>>, 70)

\* The events, and person_object_interactions after the call: a pair in
\* proximity is tracked from its first frame and dropped when the pattern fires;
\* a pair examined out of proximity is dropped; a pair that is not examined (a
\* member is absent or disappeared) keeps its entry.
detect_theft_pattern(inter, objs, timestamp) ==
    LET persons == Persons(objs)
        objects == TheftObjects(objs)
        pairs == {<<persons[i], objects[j]>> : i \in 1..Len(persons), j \in 1..Len(objects)}
        keyOf(pr) == <<pr[1].track_id, pr[2].track_id>>
        kept == {pr \in pairs : TheftNear(pr[1], pr[2])
                                /\ ~TheftFires(inter, pr[1], pr[2], timestamp)}
        examined == {keyOf(pr) : pr \in pairs}
        keys == (DOMAIN inter \ examined) \cup {keyOf(pr) : pr \in kept}
        events == Flatten([i \in 1..Len(persons) |->
                     Flatten([j \in 1..Len(objects) |->
                        IF TheftFires(inter, persons[i], objects[j], timestamp)
                          THEN <<TheftEvent(inter, persons[i], objects[j], timestamp)>>
                          ELSE <<>>])])
    IN  [events |-> events,
         interactions |-> [k \in keys |-> IF k \in DOMAIN inter THEN inter[k] ELSE timestamp]]

\* ---- fighting (lines 299-377) ----
FightKey(a, b) == IF a.track_id <= b.track_id
                    THEN <<a.track_id, b.track_id>> ELSE <<b.track_id, a.track_id>>

FightNear(a, b) == Closer(get_centroid(a), get_centroid(b), fight_proximity_threshold)

FightFires(a, b) ==
    /\ FightNear(a, b)
    /\ \/ SpeedAbove(a, fight_velocity_threshold)
       \/ SpeedAbove(b, fight_velocity_threshold)
    /\ \/ a.motion_pattern = "ERRATIC"
       \/ b.motion_pattern = "ERRATIC"

FightEvent(a, b, timestamp) ==
    NewEvent(<<"fight", <<a.track_id, b.track_id>>, timestamp>>,
             "fighting", "CRITICAL", <<a.track_id, b.track_id>>, timestamp,
             get_centroid(a), a.current_zone, 0, <<9, 10>>, 75)

detect_fighting(prox, objs, timestamp) ==
    LET persons == Persons(objs)
        n == Len(persons)
        pairs == {<<i, j>> \in (1..n) \X (1..n) : i < j}
        near == {FightKey(persons[pr[1]], persons[pr[2]]) :
                    pr \in {q \in pairs : FightNear(persons[q[1]], persons[q[2]])}}
        far == {FightKey(persons[pr[1]], persons[pr[2]]) :
                    pr \in {q \in pairs : ~FightNear(persons[q[1]], persons[q[2]])}}
        events == Flatten([i \in 1..n |->
                     Flatten([j \in 1..n |->
                        IF i < j /\ FightFires(persons[i], persons[j])
                          THEN <<FightEvent(persons[i], persons[j], timestamp)>>
                          ELSE <<>>])])
    IN  [events |-> IF n < 2 THEN <<>> ELSE events,
         proximities |-> IF n < 2 THEN prox ELSE (prox \ far) \cup near]

\* ---- abandoned object (lines 379-449) ----
IsAbandonable(o) == ~o.disappeared /\ o.class_name \in AbandonedObjectClasses

StaticStart(static, o, timestamp) ==
    IF o.track_id \in DOMAIN static THEN static[o.track_id] ELSE timestamp

\* nearest_person_distance > threshold: inf without a person.
NoPersonWithin(objs, o, px) ==
    \A i \in 1..Len(Persons(objs)) :
        Farther(get_centroid(Persons(objs)[i]), get_centroid(o), px)

AbandonedFires(static, objs, o, timestamp) ==
    /\ IsAbandonable(o)
    /\ SpeedBelow(o, abandoned_static_speed)
    /\ timestamp - StaticStart(static, o, timestamp) > abandoned_static_time
    /\ NoPersonWithin(objs, o, abandoned_distance_threshold)

AbandonedEvent(static, o, timestamp) ==
    NewEvent(<<"abandoned", <<o.track_id>>, timestamp>>,
             "abandoned_object", "WARNING", <<o.track_id>>, timestamp,
             get_centroid(o), o.current_zone,
             timestamp - StaticStart(static, o, timestamp), <<6, 10>>, 80)

\* The detector without the del of the static timer after an emission.
detect_abandoned_objects_keep_timer(static, objs, timestamp) ==
    LET cand == {i \in 1..Len(objs) : IsAbandonable(objs[i])}
        still == {objs[i].track_id : i \in {j \in cand : SpeedBelow(objs[j], abandoned_static_speed)}}
        seen == {objs[i].track_id : i \in cand}
        keys == (DOMAIN static \ seen) \cup still
        events == Flatten([i \in 1..Len(objs) |->
                     IF AbandonedFires(static, objs, objs[i], timestamp)
                       THEN <<AbandonedEvent(static, objs[i], timestamp)>> ELSE <<>>])
    IN  [events |-> events,
         static_objects |-> [k \in keys |->
                               IF k \in DOMAIN static THEN static[k] ELSE timestamp]]

detect_abandoned_objects(static, objs, timestamp) ==
    LET cand == {i \in 1..Len(objs) : IsAbandonable(objs[i])}
        still == {objs[i].track_id : i \in {j \in cand :
                      /\ SpeedBelow(objs[j], abandoned_static_speed)
                      /\ ~AbandonedFires(static, objs, objs[j], timestamp)}}
        seen == {objs[i].track_id : i \in cand}
        keys == (DOMAIN static \ seen) \cup still
        events == Flatten([i \in 1..Len(objs) |->
                     IF AbandonedFires(static, objs, objs[i], timestamp)
                       THEN <<AbandonedEvent(static, objs[i], timestamp)>> ELSE <<>>])
    IN  [events |-> events,
         static_objects |-> [k \in keys |->
                               IF k \in DOMAIN static THEN static[k] ELSE timestamp]]

\* ---- loitering (lines 451-495) ----
\* np.sum(np.linalg.norm(np.diff(positions))): each step taken to the position
\* unit below.
TotalMovement(ps) ==
    SumSeq([i \in 1..(Len(ps) - 1) |->
               ISqrt(NormSq(<<ps[i + 1][1] - ps[i][1], ps[i + 1][2] - ps[i][2]>>))])

LoiteringFiresAtContextThreshold(o) ==
    /\ ~o.disappeared
    /\ o.class_name = "person"
    /\ o.is_loitering
    /\ o.dwell_time > loitering_threshold
    /\ Len(o.positions) >= 2
    /\ TotalMovement(o.positions) < PosScale * loitering_movement_threshold

LoiteringFires(o) ==
    /\ ~o.disappeared
    /\ o.class_name = "person"
    /\ o.is_loitering
    /\ o.dwell_time > loitering_time_threshold
    /\ Len(o.positions) >= 2
    /\ TotalMovement(o.positions) < PosScale * loitering_movement_threshold

\* The event id built from the track alone.
LoiteringEventPerTrack(o, timestamp) ==
    NewEvent(<<"loiter", <<o.track_id>>, 0>>,
             "loitering", "MONITORING", <<o.track_id>>, timestamp,
             get_centroid(o), o.current_zone, o.dwell_time, <<5, 10>>, 85)

LoiteringEvent(o, timestamp) ==
    NewEvent(<<"loiter", <<o.track_id>>, timestamp>>,
             "loitering", "MONITORING", <<o.track_id>>, timestamp,
             get_centroid(o), o.current_zone, o.dwell_time, <<5, 10>>, 85)

detect_loitering(objs, timestamp) ==
    Flatten([i \in 1..Len(objs) |->
               IF LoiteringFires(objs[i])
                 THEN <<LoiteringEvent(objs[i], timestamp)>> ELSE <<>>])

\* ---- crowd gathering (lines 497-535) ----
\* np.mean(centroids, axis=0), to the position unit below.
CrowdCenter(persons) ==
    <<SumSeq([i \in 1..Len(persons) |-> get_centroid(persons[i])[1]]) \div Len(persons),
      SumSeq([i \in 1..Len(persons) |-> get_centroid(persons[i])[2]]) \div Len(persons)>>

\* The detector emitting from crowd_emit_size persons on.
detect_crowd_gathering_from_twenty(objs, timestamp) ==
    LET persons == Persons(objs)
        crowd_size == Len(persons)
    IN  IF crowd_size >= crowd_min_size /\ crowd_size >= crowd_emit_size
          THEN <<NewEvent(<<"crowd", <<>>, timestamp>>,
                          "crowd_gathering", "MONITORING",
                          [i \in 1..Len(persons) |-> persons[i].track_id], timestamp,
                          CrowdCenter(persons), persons[1].current_zone,
                          0, <<4, 10>>, 90)>>
          ELSE <<>>

detect_crowd_gathering(objs, timestamp) ==
    LET persons == Persons(objs)
        crowd_size == Len(persons)
    IN  IF crowd_size >= crowd_min_size /\ crowd_size > crowd_emit_size
          THEN <<NewEvent(<<"crowd", <<>>, timestamp>>,
                          "crowd_gathering", "MONITORING",
                          [i \in 1..Len(persons) |-> persons[i].track_id], timestamp,
                          CrowdCenter(persons), persons[1].current_zone,
                          0, <<4, 10>>, 90)>>
          ELSE <<>>

\* ---- intrusion (lines 537-568) ----
IntrusionEvent(v, timestamp) ==
    NewEvent(<<"intrusion", <<v.track_id>>, timestamp>>,
             "intrusion", "WARNING", <<v.track_id>>, timestamp,
             v.position, v.zone_id, 0, v.severity, 90)

detect_intrusion(spatial_violations, timestamp) ==
    Flatten([i \in 1..Len(spatial_violations) |->
               IF spatial_violations[i].violation_type \in {"restricted_access", "time_violation"}
                 THEN <<IntrusionEvent(spatial_violations[i], timestamp)>> ELSE <<>>])

\* ---- falls (lines 570-619) ----
BoxHeight(bbox) == bbox[4] - bbox[2]

FallFires(o) ==
    /\ ~o.disappeared
    /\ o.class_name = "person"
    /\ o.acceleration # None
    /\ o.acceleration[1] # 0
    /\ o.acceleration[1] < 0 - AccelScale * fall_velocity_threshold
    /\ Len(o.bboxes) >= 2
    /\ BoxHeight(o.bboxes[Len(o.bboxes) - 1]) > 0
    /\ 10 * BoxHeight(o.bboxes[Len(o.bboxes)])
          < (10 - fall_aspect_ratio_change) * BoxHeight(o.bboxes[Len(o.bboxes) - 1])

FallEvent(o, timestamp) ==
    NewEvent(<<"fall", <<o.track_id>>, timestamp>>,
             "fall_detected", "CRITICAL", <<o.track_id>>, timestamp,
             get_centroid(o), o.current_zone, 0, <<95, 100>>, 70)

detect_falls(objs, timestamp) ==
    Flatten([i \in 1..Len(objs) |->
               IF FallFires(objs[i]) THEN <<FallEvent(objs[i], timestamp)>> ELSE <<>>])

\* ---- the state machine and the archive ----
ObjectsPresent(event, objs) ==
    \E i \in 1..Len(event.track_ids) :
        /\ event.track_ids[i] \in Ids(objs)
        /\ ~Get(objs, event.track_ids[i]).disappeared

downgraded_at_once(state) ==
    IF state \in {"CRITICAL", "WARNING", "SUSPICIOUS"} THEN "MONITORING" ELSE state

\* The downgrade not stopping at MONITORING.
downgraded_to_normal(state) ==
    IF state = "CRITICAL" THEN "WARNING"
    ELSE IF state \in {"WARNING", "SUSPICIOUS"} THEN "MONITORING"
    ELSE "NORMAL"

\* The state an event whose objects are gone moves to (lines 630-635).
downgraded(state) ==
    IF state = "CRITICAL" THEN "WARNING"
    ELSE IF state \in {"WARNING", "SUSPICIOUS"} THEN "MONITORING"
    ELSE state

update_event_state(event, objs, timestamp) ==
    LET e1 == IF ObjectsPresent(event, objs)
                THEN event ELSE transition_state(event, downgraded(event.state))
    IN  [e1 EXCEPT !.duration = timestamp - event.timestamp]

update_event_states(active, objs, timestamp) ==
    [i \in 1..Len(active) |-> update_event_state(active[i], objs, timestamp)]

EventIds(events) == {events[i].event_id : i \in 1..Len(events)}

EventIndex(events, id) == CHOOSE i \in 1..Len(events) : events[i].event_id = id

\* self.active_events[event.event_id] = event : an event with the id of an
\* active one takes its place.
PutEvent(active, event) ==
    IF event.event_id \in EventIds(active)
      THEN [active EXCEPT ![EventIndex(active, event.event_id)] = event]
      ELSE Append(active, event)

RECURSIVE PutEvents(_, _)
PutEvents(active, new_events) ==
    IF new_events = <<>> THEN active
    ELSE PutEvents(PutEvent(active, Head(new_events)), Tail(new_events))

IsStaleUnlessCritical(event, timestamp, max_age) ==
    timestamp - event.timestamp > max_age /\ event.state # "CRITICAL"

IsStale(event, timestamp, max_age) == timestamp - event.timestamp > max_age

\* _resolve_stale_events: [active, resolved] after the call.
resolve_stale_events(active, resolved, timestamp, max_age) ==
    LET Stale(e) == IsStale(e, timestamp, max_age)
        Fresh(e) == ~IsStale(e, timestamp, max_age)
        gone == SelectSeq(active, Stale)
    IN  [active |-> SelectSeq(active, Fresh),
         resolved |-> resolved \o
            [i \in 1..Len(gone) |->
                [gone[i] EXCEPT !.resolved = TRUE, !.resolution_timestamp = timestamp]]]

\* EventIntelligenceLayer.update: the layer after the call; the call returns
\* list(active_events.values()), the `active` of the result.
\* Lines 192-201: new_events, the events the seven detectors create in one
\* update, in the order of the calls.
detect_all(ev, objs, spatial_violations, timestamp) ==
    detect_theft_pattern(ev.person_object_interactions, objs, timestamp).events
    \o detect_fighting(ev.person_proximities, objs, timestamp).events
    \o detect_abandoned_objects(ev.static_objects, objs, timestamp).events
    \o detect_loitering(objs, timestamp)
    \o detect_crowd_gathering(objs, timestamp)
    \o detect_intrusion(spatial_violations, timestamp)
    \o detect_falls(objs, timestamp)

EventIntelligenceLayer_update(ev, objs, spatial_violations, timestamp) ==
    LET theft == detect_theft_pattern(ev.person_object_interactions, objs, timestamp)
        fight == detect_fighting(ev.person_proximities, objs, timestamp)
        aband == detect_abandoned_objects(ev.static_objects, objs, timestamp)
        new_events == detect_all(ev, objs, spatial_violations, timestamp)
        updated == update_event_states(ev.active_events, objs, timestamp)
        r == resolve_stale_events(PutEvents(updated, new_events), ev.resolved_events,
                                  timestamp, event_max_age)
    IN  [active_events |-> r.active,
         resolved_events |-> r.resolved,
         person_object_interactions |-> theft.interactions,
         person_proximities |-> fight.proximities,
         static_objects |-> aband.static_objects]

get_critical_events(ev) ==
    LET Critical(e) == e.state = "CRITICAL"
    IN  SelectSeq(ev.active_events, Critical)

(***************************************************************************)
(* ai_agent/temporal_smoothing.py : TemporalConsistencyLayer               *)
(*                                                                         *)
(* A confidence is an exact fraction <<numerator, denominator>> in lowest  *)
(* terms.  confidence_history and total_frames are never read, and the     *)
(* statistics counters only grow; they are left out.                       *)
(***************************************************************************)

\* TemporalConsistencyLayer.__init__ defaults and the deque lengths.
temporal_history_size == 15

bbox_smooth_frames == 5

class_lock_threshold == 8

\* class_unlock_threshold = 0.7, confidence_alpha = 0.3 and
\* min_confidence_threshold = 0.2, in tenths.
class_unlock_threshold == 7

confidence_alpha == 3

min_confidence_threshold == 2

class_history_maxlen == 30

bbox_history_maxlen == 10

RECURSIVE GCD(_, _)
GCD(a, b) == IF b = 0 THEN a ELSE GCD(b, a % b)

Frac(n, d) == IF n = 0 THEN <<0, 1>> ELSE <<n \div GCD(n, d), d \div GCD(n, d)>>

FracLess(a, b) == a[1] * b[2] < b[1] * a[2]

NewTemporalState(track_id) ==
    [track_id |-> track_id, class_history |-> <<>>, bbox_history |-> <<>>,
     stable_class |-> None, stable_confidence |-> <<0, 1>>, stable_bbox |-> None,
     frames_with_current_class |-> 0, class_locked |-> FALSE]

\* _update_history
update_history(state, det) ==
    [state EXCEPT !.class_history = DequeAppend(@, det.class_name, class_history_maxlen),
                  !.bbox_history = DequeAppend(@, det.bbox, bbox_history_maxlen)]

\* _get_majority_class: Counter.most_common(1) over the recent history; of
\* the classes with the most votes, the one met first.
temporal_majority_class(state) ==
    LET h == LastN(state.class_history, temporal_history_size)
    IN  IF h = <<>> THEN "unknown"
        ELSE CHOOSE c \in Range(h) :
                \A d \in Range(h) :
                    \/ Votes(h, c) > Votes(h, d)
                    \/ Votes(h, c) = Votes(h, d) /\ FirstIndex(h, c) <= FirstIndex(h, d)

\* _should_unlock_class: contradictions / len(recent) >= class_unlock_threshold.
should_unlock_class(state, new_class) ==
    LET h == LastN(state.class_history, temporal_history_size)
    IN  /\ h # <<>>
        /\ 10 * Cardinality({i \in 1..Len(h) : h[i] # state.stable_class})
              >= class_unlock_threshold * Len(h)

\* The exponential moving average of _apply_smoothing; a stable_confidence of
\* exactly 0.0 is taken for the first frame.
smooth_confidence(stable_confidence, raw) ==
    IF stable_confidence[1] = 0 THEN raw
    ELSE Frac(confidence_alpha * raw[1] * stable_confidence[2]
                + (10 - confidence_alpha) * stable_confidence[1] * raw[2],
              10 * raw[2] * stable_confidence[2])

\* _smooth_bbox: the mean of the last bbox_smooth_frames boxes.
smooth_bbox(state) ==
    LET recent == LastN(state.bbox_history, bbox_smooth_frames)
    IN  IF recent = <<>> THEN <<0, 0, 0, 0>>
        ELSE [k \in 1..4 |->
                SumSeq([i \in 1..Len(recent) |-> recent[i][k]]) \div Len(recent)]

\* _apply_smoothing: [state, det, dropped]; a dropped detection is the None
\* the code returns.
apply_smoothing(state, det) ==
    LET majority == temporal_majority_class(state)
        same == state.stable_class = majority
        unlock == should_unlock_class(state, majority)
        s1 == IF same
                THEN [state EXCEPT !.frames_with_current_class = @ + 1]
              ELSE IF state.class_locked
                THEN IF unlock
                       THEN [state EXCEPT !.stable_class = majority,
                                          !.frames_with_current_class = 1,
                                          !.class_locked = FALSE]
                       ELSE state
              ELSE [state EXCEPT !.stable_class = majority,
                                 !.frames_with_current_class = 1]
        stable_class == IF ~same /\ state.class_locked /\ ~unlock
                          THEN state.stable_class ELSE majority
        s2 == IF s1.frames_with_current_class >= class_lock_threshold
                THEN [s1 EXCEPT !.class_locked = TRUE] ELSE s1
        s3 == [s2 EXCEPT !.stable_confidence = smooth_confidence(@, det.confidence)]
        stable_bbox == smooth_bbox(s3)
    IN  IF FracLess(s3.stable_confidence, <<min_confidence_threshold, 10>>)
          THEN [state |-> s3, det |-> None, dropped |-> TRUE]
          ELSE [state |-> [s3 EXCEPT !.stable_class = stable_class,
                                     !.stable_bbox = stable_bbox],
                det |-> [track_id |-> s3.track_id, bbox |-> stable_bbox,
                         confidence |-> s3.stable_confidence,
                         class_name |-> stable_class,
                         raw_class |-> det.class_name,
                         raw_confidence |-> det.confidence,
                         class_locked |-> s3.class_locked,
                         lock_strength |-> s3.frames_with_current_class],
                dropped |-> FALSE]

RECURSIVE temporal_update_all(_, _, _)
\* The loop of update(): [states, smoothed] after the detections dets.
temporal_update_all(states, smoothed, dets) ==
    IF dets = <<>> THEN [states |-> states, smoothed |-> smoothed]
    ELSE LET det == Head(dets)
             state == IF det.track_id \in Ids(states)
                        THEN Get(states, det.track_id)
                        ELSE NewTemporalState(det.track_id)
             r == apply_smoothing(update_history(state, det), det)
         IN  temporal_update_all(Put(states, r.state),
                                 IF r.dropped THEN smoothed
                                              ELSE Append(smoothed, r.det),
                                 Tail(dets))

\* TemporalConsistencyLayer.update
TemporalConsistencyLayer_update(states, frame_detections) ==
    temporal_update_all(states, <<>>, frame_detections)

(***************************************************************************)
(* ai_agent/agent_core.py : AIReasoningAgent                               *)
(*                                                                         *)
(* The severity scores are computed from the object states and change no   *)
(* state (process_frame never calls record_violation); the returned        *)
(* object_states is the context engine's own dict.  Both are left out of   *)
(* the result; `raised` is the exception a call ends with, if any.         *)
(***************************************************************************)

ZoneTypes == {"normal", "restricted", "entry_only", "exit_only", "time_restricted",
              "crowd_limit"}

\* AIReasoningAgent.add_zone, lines 340-344: a string that names no ZoneType
\* is ZoneType.NORMAL.
zone_type_enum(zone_type) == IF zone_type \in ZoneTypes THEN zone_type ELSE "normal"

\* critical_threshold = 0.7, in tenths.
critical_threshold == 7

NewSpatialEngine == [zones |-> <<>>, object_zones |-> <<>>, object_zone_history |-> <<>>]

NewEventLayer ==
    [active_events |-> <<>>, resolved_events |-> <<>>,
     person_object_interactions |-> <<>>, person_proximities |-> {},
     static_objects |-> <<>>]

NoResult ==
    [smoothed_detections |-> <<>>, spatial_violations |-> <<>>,
     active_events |-> <<>>, critical_alerts |-> <<>>, raised |-> None]

IsCriticalState(e) == e.state = "CRITICAL"

IsCriticalAlert(e) ==
    \/ e.state = "CRITICAL"
    \/ 10 * e.severity_score[1] >= critical_threshold * e.severity_score[2]

\* The value of a stage of the pipeline, bound once it is computed.
The(S) == CHOOSE x \in S : TRUE

\* process_frame: the four layers after the call, and what it returns.  The
\* stages run in the order of lines 197, 204, 215 and 258 (read from the
\* bottom: tl, tracked, sp, ev).
process_frame(ag, detections, timestamp) ==
    The({ The({ The({ The({
        LET active_events == IF tracked # <<>> THEN ev.active_events ELSE <<>>
        IN  [temporal_layer |-> tl.states,
             context_engine |-> sp.objs,
             spatial_engine |-> [zones |-> sp.zones,
                                 object_zones |-> sp.object_zones,
                                 object_zone_history |-> sp.object_zone_history],
             event_layer |-> ev,
             result |-> [smoothed_detections |-> tl.smoothed,
                         spatial_violations |-> sp.violations,
                         active_events |-> active_events,
                         critical_alerts |-> SelectSeq(active_events, IsCriticalAlert),
                         raised |-> None]]
      : ev \in {IF tracked # <<>>
                  THEN EventIntelligenceLayer_update(ag.event_layer, sp.objs,
                                                     sp.violations, timestamp)
                  ELSE ag.event_layer} })
      : sp \in {IF tracked # <<>>
                  THEN SpatialAwarenessEngine_update(ag.spatial_engine, tracked,
                                                     timestamp)
                  ELSE [zones |-> ag.spatial_engine.zones,
                        object_zones |-> ag.spatial_engine.object_zones,
                        object_zone_history |-> ag.spatial_engine.object_zone_history,
                        objs |-> tracked, violations |-> <<>>]} })
      : tracked \in {BehavioralContextEngine_update(ag.context_engine,
                                                    tl.smoothed, timestamp)} })
      : tl \in {TemporalConsistencyLayer_update(ag.temporal_layer, detections)} })

(***************************************************************************)
(* The reasoning agent as a state machine.                                 *)
(*                                                                         *)
(* Time is in whole seconds.  `clock` is the timestamp of the latest frame *)
(* and the wall clock (a live stream stamps its frames with the wall       *)
(* clock); timestamps never decrease.                                      *)
(***************************************************************************)

vars == <<stabVars, agentVars>>

\* A frame-processing thread between two calls, and a cleanup thread likewise.
IdleFrame == [pc |-> "idle", i |-> 0, size |-> 0, smoothed |-> <<>>, violations |-> <<>>]

IdleCleanup == [pc |-> "idle", to_remove |-> {}]

\* The thread in export_event_report: outside it, or in one of its two loops
\* with the dict size its iterator saw and the event ids it has copied.
IdleExport == [pc |-> "idle", i |-> 0, size |-> 0, snapshot |-> <<>>, active |-> <<>>, resolved |-> <<>>, raised |-> None]

\* AIReasoningAgent.__init__: the five layers, empty.
AgentInit ==
    /\ temporal_layer = <<>>
    /\ context_engine = <<>>
    /\ spatial_engine = NewSpatialEngine
    /\ event_layer = NewEventLayer
    /\ frame_count = 0
    /\ clock = 0
    /\ frame = <<>>
    /\ object_states = <<>>
    /\ result = NoResult
    /\ pf = IdleFrame
    /\ cl = IdleCleanup
    /\ ex = IdleExport
    /\ agent_lock = None
    /\ ctx_lock = None
    /\ severity_engine = <<>>
    /\ severity_ret = <<>>
    /\ level_ret = <<>>

Init == StabInit /\ AgentInit

SpecStab == Init /\ [][StabNext]_vars

\* A bounding box in whole pixels, and a detection as the tracker hands it over.
Box(x1, y1, x2, y2) == <<BBoxScale * x1, BBoxScale * y1, BBoxScale * x2, BBoxScale * y2>>

Det(track_id, bbox, confidence, class_name) ==
    [track_id |-> track_id, bbox |-> bbox, confidence |-> confidence,
     class_name |-> class_name]

\* A standing person centred on (100, 100), the same person lying down, and
\* the person centred on (300, 100).
PersonBox == Box(80, 40, 120, 160)

LyingBox == Box(40, 80, 160, 120)

FarBox == Box(280, 40, 320, 160)

BagBox == Box(390, 390, 410, 410)

HighConfidence == <<9, 10>>

LowConfidence == <<1, 10>>

(***************************************************************************)
(* The context engine on its own: BehavioralContextEngine.update and       *)
(* cleanup_old_objects, called as the unit tests call them.                *)
(***************************************************************************)

CtxMaxFrames == 4

CtxFrames ==
    {<<>>,
     <<Det(1, PersonBox, HighConfidence, "person")>>,
     <<Det(1, FarBox, HighConfidence, "person")>>,
     <<Det(1, PersonBox, HighConfidence, "person"),
       Det(2, BagBox, HighConfidence, "backpack")>>}

\* Seconds between frames: within the disappearance timeout, at it (1 + 1, 2),
\* just over it (1 + 2) and over the loitering threshold.
CtxSteps == {1, 2, 11}

CleanupAges == {10}

context_update(frame_detections, d) ==
    /\ frame_count < CtxMaxFrames
    /\ clock' = clock + d
    /\ frame' = frame_detections
    /\ frame_count' = frame_count + 1
    /\ context_engine' = BehavioralContextEngine_update(context_engine,
                                                        frame_detections, clock + d)
    /\ UNCHANGED <<temporal_layer, spatial_engine, event_layer, object_states, result,
                   threadVars, stabVars, sevVars>>

context_cleanup(max_age_seconds) ==
    /\ cleanup_old_objects(context_engine, max_age_seconds, clock) # context_engine
    /\ context_engine' = cleanup_old_objects(context_engine, max_age_seconds, clock)
    /\ UNCHANGED <<temporal_layer, spatial_engine, event_layer, callVars,
                   threadVars, stabVars, sevVars>>

CtxNext ==
    \/ \E dets \in CtxFrames, d \in CtxSteps : context_update(dets, d)
    \/ \E a \in CleanupAges : context_cleanup(a)

SpecCtx == Init /\ [][CtxNext]_vars

(***************************************************************************)
(* The event layer on its own: EventIntelligenceLayer.update called with   *)
(* object states the context engine produces.  The layer reads no          *)
(* timestamp of an object state, so a scene is built once, from frames     *)
(* stamped 0.                                                              *)
(***************************************************************************)

EvMaxUpdates == 4

RECURSIVE FeedAll(_, _, _)
\* BehavioralContextEngine.update for each frame of a sequence, at one timestamp.
FeedAll(objs, frames, timestamp) ==
    IF frames = <<>> THEN objs
    ELSE FeedAll(BehavioralContextEngine_update(objs, Head(frames), timestamp),
                 Tail(frames), timestamp)

Standing(k) == Box(80 + k, 40, 120 + k, 160)

Lying(k) == Box(40 + k, 80, 160 + k, 120)

\* Ten frames of person 1: four steps of a pixel, a halt, and on the tenth
\* frame a box of a third of the height.
FallFrames ==
    [n \in 1..10 |->
        <<Det(1, IF n = 10 THEN Lying(4) ELSE Standing(Min(n - 1, 4)),
              HighConfidence, "person")>>]

\* Person 1 on the frame of the fall.
SceneFall == FeedAll(<<>>, FallFrames, 0)

\* Person 1 a frame later, still down.
SceneDown ==
    BehavioralContextEngine_update(SceneFall,
        <<Det(1, Lying(4), HighConfidence, "person")>>, 0)

\* Person 1 unseen for three seconds: flagged disappeared.
SceneGone == BehavioralContextEngine_update(SceneDown, <<>>, 3)

\* Person 2 alone, standing still for 16 s; person 1 is not in the object set.
SceneLoiter ==
    BehavioralContextEngine_update(
        BehavioralContextEngine_update(<<>>,
            <<Det(2, FarBox, HighConfidence, "person")>>, 0),
        <<Det(2, FarBox, HighConfidence, "person")>>, 16)

EvScenes == {SceneFall, SceneDown, SceneGone, SceneLoiter}

\* Seconds between updates: the same timestamp again, the next second, and
\* just over max_age.
EvSteps == {0, 1, 61}

event_update(scene, d) ==
    /\ frame_count < EvMaxUpdates
    /\ clock' = clock + d
    /\ frame_count' = frame_count + 1
    /\ object_states' = scene
    /\ event_layer' = EventIntelligenceLayer_update(event_layer, scene, <<>>, clock + d)
    /\ UNCHANGED <<temporal_layer, context_engine, spatial_engine, frame, result,
                   threadVars, stabVars, sevVars>>

EvNext == \E scene \in EvScenes, d \in EvSteps : event_update(scene, d)

SpecEvents == Init /\ [][EvNext]_vars

(***************************************************************************)
(* The agent's entry points: process_frame and add_zone.                   *)
(***************************************************************************)

AIReasoningAgent_process_frame(detections, d, max_frames) ==
    \E r \in {process_frame([temporal_layer |-> temporal_layer,
                              context_engine |-> context_engine,
                              spatial_engine |-> spatial_engine,
                              event_layer |-> event_layer], detections, clock + d)} :
        /\ frame_count < max_frames
        /\ clock' = clock + d
        /\ frame' = detections
        /\ frame_count' = frame_count + 1
        /\ temporal_layer' = r.temporal_layer
        /\ context_engine' = r.context_engine
        /\ spatial_engine' = r.spatial_engine
        /\ event_layer' = r.event_layer
        /\ result' = r.result
        /\ UNCHANGED <<object_states, threadVars, stabVars, sevVars>>

AIReasoningAgent_add_zone(zone_id, polygon, zone_type, kwargs) ==
    /\ spatial_engine' = [spatial_engine EXCEPT
                             !.zones = add_zone(@, zone_id, polygon,
                                                zone_type_enum(zone_type), kwargs)]
    /\ spatial_engine' # spatial_engine
    /\ UNCHANGED <<temporal_layer, context_engine, event_layer, callVars,
                   threadVars, stabVars, sevVars>>

(***************************************************************************)
(* End to end: frames of one person who does not move.                     *)
(***************************************************************************)

E2EMaxFrames == 7

E2EFrames ==
    {<<Det(1, PersonBox, HighConfidence, "person")>>,
     <<Det(1, PersonBox, LowConfidence, "person")>>}

E2ESteps == {2, 3}

E2ENext ==
    \E dets \in E2EFrames, d \in E2ESteps :
        AIReasoningAgent_process_frame(dets, d, E2EMaxFrames)

SpecE2E == Init /\ [][E2ENext]_vars

(***************************************************************************)
(* Zones: a person in an entry-only zone, in a restricted zone, or out of  *)
(* sight.                                                                  *)
(***************************************************************************)

ZoneMaxFrames == 4

Square(x1, y1, x2, y2) == <<<<x1, y1>>, <<x2, y1>>, <<x2, y2>>, <<x1, y2>>>>

\* An entry-only zone around (100, 100) and a restricted zone, persons not on
\* its whitelist, around (300, 100).
ZoneChoices ==
    {[zone_id |-> "gate", polygon |-> Square(50, 50, 150, 150),
      zone_type |-> "entry_only", kwargs |-> ZoneDefaults],
     [zone_id |-> "vault", polygon |-> Square(250, 50, 350, 150),
      zone_type |-> "restricted",
      kwargs |-> [ZoneDefaults EXCEPT !.allowed_classes = <<{"car"}>>,
                                      !.severity_weight = 2 * WeightScale]]}

ZoneFrames ==
    {<<>>,
     <<Det(1, PersonBox, HighConfidence, "person")>>,
     <<Det(1, FarBox, HighConfidence, "person")>>}

ZoneSteps == {1, 3}

ZoneNext ==
    \/ \E z \in ZoneChoices :
          AIReasoningAgent_add_zone(z.zone_id, z.polygon, z.zone_type, z.kwargs)
    \/ \E dets \in ZoneFrames, d \in ZoneSteps :
          AIReasoningAgent_process_frame(dets, d, ZoneMaxFrames)

SpecZones == Init /\ [][ZoneNext]_vars

(***************************************************************************)
(* Zones that overlap, that are switched off or that have too few          *)
(* vertices, configured before the stream starts; one or two persons.      *)
(***************************************************************************)

SpatialMaxFrames == 3

\* `yard` and `dock` both hold (100, 100); `vault` and `line` are met on the
\* way to (300, 100).
SpatialZoneChoices ==
    {[zone_id |-> "yard", polygon |-> Square(40, 40, 160, 160),
      zone_type |-> "normal", kwargs |-> ZoneDefaults],
     [zone_id |-> "dock", polygon |-> Square(50, 50, 150, 150),
      zone_type |-> "exit_only", kwargs |-> ZoneDefaults],
     [zone_id |-> "shed", polygon |-> Square(40, 40, 160, 160),
      zone_type |-> "normal", kwargs |-> [ZoneDefaults EXCEPT !.active = FALSE]],
     [zone_id |-> "vault", polygon |-> Square(250, 50, 350, 150),
      zone_type |-> "restricted",
      kwargs |-> [ZoneDefaults EXCEPT !.denied_classes = <<{"person"}>>,
                                      !.allowed_classes = <<{"car"}>>,
                                      !.severity_weight = 2 * WeightScale]],
     [zone_id |-> "line", polygon |-> <<<<150, 50>>, <<250, 150>>>>,
      zone_type |-> "restricted",
      kwargs |-> [ZoneDefaults EXCEPT !.denied_classes = <<{"person"}>>]]}

SpatialFrames ==
    {<<>>,
     <<Det(1, PersonBox, HighConfidence, "person")>>,
     <<Det(1, FarBox, HighConfidence, "person")>>,
     <<Det(1, FarBox, HighConfidence, "person"),
       Det(2, FarBox, HighConfidence, "person")>>}

SpatialSteps == {3}

\* add_zone while no frame has been processed yet.
configure_zone(z) ==
    /\ frame_count = 0
    /\ AIReasoningAgent_add_zone(z.zone_id, z.polygon, z.zone_type, z.kwargs)

SpatialNext ==
    \/ \E z \in SpatialZoneChoices : configure_zone(z)
    \/ \E dets \in SpatialFrames, d \in SpatialSteps :
          AIReasoningAgent_process_frame(dets, d, SpatialMaxFrames)

SpecSpatial == Init /\ [][SpatialNext]_vars

(***************************************************************************)
(* The agent with two nested restricted zones, frames that may be empty or *)
(* carry a malformed detection, and the cleanup sweep between frames.      *)
(***************************************************************************)

AgentMaxFrames == 3

\* `safe` lies inside `hall`; both hold (300, 100), only `hall` holds the
\* smoothed centroids on the way there.
AgentZoneChoices ==
    {[zone_id |-> "hall", polygon |-> Square(220, 50, 380, 150),
      zone_type |-> "restricted",
      kwargs |-> [ZoneDefaults EXCEPT !.denied_classes = <<{"person"}>>,
                                      !.severity_weight = 2 * WeightScale]],
     [zone_id |-> "safe", polygon |-> Square(260, 60, 340, 140),
      zone_type |-> "restricted",
      kwargs |-> [ZoneDefaults EXCEPT !.denied_classes = <<{"person"}>>,
                                      !.severity_weight = WeightScale \div 2]]}

\* x1 > x2 and a confidence of 1.5.
MalformedDet == Det(3, Box(120, 40, 80, 160), <<3, 2>>, "person")

AgentFrames ==
    {<<>>,
     <<Det(1, PersonBox, HighConfidence, "person")>>,
     <<Det(1, FarBox, HighConfidence, "person")>>,
     <<Det(1, FarBox, HighConfidence, "person"), MalformedDet>>}

AgentSteps == {3}

AgentCleanupAges == {2}

\* AIReasoningAgent.cleanup, between two frames.
AIReasoningAgent_cleanup(max_age_seconds) == context_cleanup(max_age_seconds)

AgentNext ==
    \/ \E z \in AgentZoneChoices : configure_zone(z)
    \/ \E dets \in AgentFrames, d \in AgentSteps :
          AIReasoningAgent_process_frame(dets, d, AgentMaxFrames)
    \/ \E a \in AgentCleanupAges : AIReasoningAgent_cleanup(a)

SpecAgent == Init /\ [][AgentNext]_vars

(***************************************************************************)
(* Two threads: one in process_frame, one in cleanup.                      *)
(*                                                                         *)
(* process_frame holds the agent's lock from start to end.  The context    *)
(* engine's lock is held inside context_engine.update and inside           *)
(* cleanup_old_objects only; update returns self.objects itself, and the   *)
(* spatial, severity and event stages walk that dict without the context   *)
(* engine's lock.  A dict whose size changes under a live iterator makes   *)
(* the iterator's next step raise RuntimeError.  The spatial and severity  *)
(* loops are taken one object at a time; the event stage is one step.      *)
(***************************************************************************)

ConcMaxFrames == 3

ConcFrames ==
    {<<Det(1, PersonBox, HighConfidence, "person")>>,
     <<Det(2, FarBox, HighConfidence, "person")>>}

ConcSteps == {1, 6}

ConcCleanupAges == {5}

\* Lines 185-198: the agent's lock, the frame counter and the temporal layer.
pf_begin(detections, d) ==
    LET tl == TemporalConsistencyLayer_update(temporal_layer, detections)
    IN  /\ pf.pc = "idle"
        /\ agent_lock = None
        /\ frame_count < ConcMaxFrames
        /\ agent_lock' = "process_frame"
        /\ clock' = clock + d
        /\ frame' = detections
        /\ frame_count' = frame_count + 1
        /\ temporal_layer' = tl.states
        /\ pf' = [IdleFrame EXCEPT !.pc = "context", !.smoothed = tl.smoothed]
        /\ UNCHANGED <<context_engine, spatial_engine, event_layer, object_states,
                       result, cl, ctx_lock, ex, stabVars, sevVars>>

\* Lines 203-209: context_engine.update, under the context engine's lock.
pf_context ==
    /\ pf.pc = "context"
    /\ ctx_lock = None
    /\ context_engine' = BehavioralContextEngine_update(context_engine, pf.smoothed, clock)
    /\ pf' = [pf EXCEPT !.pc = "spatial"]
    /\ UNCHANGED <<temporal_layer, spatial_engine, event_layer, callVars, cl,
                   agent_lock, ctx_lock, ex, stabVars, sevVars>>

\* The call ends with RuntimeError: dictionary changed size during iteration.
pf_raise ==
    /\ pf' = IdleFrame
    /\ agent_lock' = None
    /\ result' = [NoResult EXCEPT !.raised = "RuntimeError"]

\* Lines 215 and 225: `... and object_states`, then the loop's iterator.
pf_enter(stage, next_stage) ==
    /\ pf.pc = stage
    /\ pf.i = 0
    /\ IF context_engine = <<>>
         THEN /\ pf' = [pf EXCEPT !.pc = next_stage]
              /\ UNCHANGED spatial_engine
         ELSE /\ pf' = [pf EXCEPT !.i = 1, !.size = Len(context_engine)]
              /\ spatial_engine' =
                    IF stage = "spatial"
                      THEN [spatial_engine EXCEPT !.zones = reset_occupancy(@)]
                      ELSE spatial_engine
    /\ UNCHANGED <<temporal_layer, context_engine, event_layer, callVars, cl,
                   agent_lock, ctx_lock, ex, stabVars, sevVars>>

\* One turn of the loop of spatial_engine.update (spatial_engine.py:197-246).
pf_spatial_next ==
    /\ pf.pc = "spatial"
    /\ pf.i >= 1
    /\ IF Len(context_engine) # pf.size
         THEN /\ pf_raise
              /\ UNCHANGED <<context_engine, spatial_engine>>
         ELSE IF pf.i > pf.size
           THEN /\ pf' = [pf EXCEPT !.pc = "severity", !.i = 0]
                /\ UNCHANGED <<context_engine, spatial_engine, result, agent_lock>>
           ELSE LET st == spatial_update_one(
                              [zones |-> spatial_engine.zones,
                               object_zones |-> spatial_engine.object_zones,
                               object_zone_history |-> spatial_engine.object_zone_history,
                               objs |-> context_engine,
                               violations |-> pf.violations], pf.i, clock)
                IN  /\ spatial_engine' = [zones |-> st.zones,
                                          object_zones |-> st.object_zones,
                                          object_zone_history |-> st.object_zone_history]
                    /\ context_engine' = st.objs
                    /\ pf' = [pf EXCEPT !.i = @ + 1, !.violations = st.violations]
                    /\ UNCHANGED <<result, agent_lock>>
    /\ UNCHANGED <<temporal_layer, event_layer, frame_count, clock, frame,
                   object_states, cl, ctx_lock, ex, stabVars, sevVars>>

\* One turn of the severity loop (agent_core.py:226-252).
pf_severity_next ==
    /\ pf.pc = "severity"
    /\ pf.i >= 1
    /\ IF Len(context_engine) # pf.size
         THEN pf_raise
         ELSE /\ pf' = IF pf.i > pf.size
                         THEN [pf EXCEPT !.pc = "events", !.i = 0]
                         ELSE [pf EXCEPT !.i = @ + 1]
              /\ UNCHANGED <<result, agent_lock>>
    /\ UNCHANGED <<engineVars, frame_count, clock, frame, object_states, cl,
                   ctx_lock, ex, stabVars, sevVars>>

\* Lines 257-298: the event layer, the alerts and the return.
pf_events ==
    LET ev == IF context_engine # <<>>
                THEN EventIntelligenceLayer_update(event_layer, context_engine,
                                                   pf.violations, clock)
                ELSE event_layer
        active_events == IF context_engine # <<>> THEN ev.active_events ELSE <<>>
    IN  /\ pf.pc = "events"
        /\ event_layer' = ev
        /\ result' = [smoothed_detections |-> pf.smoothed,
                      spatial_violations |-> pf.violations,
                      active_events |-> active_events,
                      critical_alerts |-> SelectSeq(active_events, IsCriticalAlert),
                      raised |-> None]
        /\ pf' = IdleFrame
        /\ agent_lock' = None
        /\ UNCHANGED <<temporal_layer, context_engine, spatial_engine, frame_count,
                       clock, frame, object_states, cl, ctx_lock, ex, stabVars, sevVars>>

\* AIReasoningAgent.cleanup -> cleanup_old_objects: the context engine's lock,
\* the clock and the first loop (context_engine.py:361-368).
cleanup_begin(max_age_seconds) ==
    /\ cl.pc = "idle"
    /\ ctx_lock = None
    /\ ctx_lock' = "cleanup"
    /\ cl' = [pc |-> "sweep",
              to_remove |-> {context_engine[j].track_id : j \in
                               {k \in 1..Len(context_engine) :
                                  clock - context_engine[k].last_seen > max_age_seconds}}]
    /\ UNCHANGED <<engineVars, callVars, pf, agent_lock, ex, stabVars, sevVars>>

\* The second loop (context_engine.py:370-371) and the release.
cleanup_sweep ==
    /\ cl.pc = "sweep"
    /\ context_engine' = Without(context_engine, cl.to_remove)
    /\ ctx_lock' = None
    /\ cl' = IdleCleanup
    /\ UNCHANGED <<temporal_layer, spatial_engine, event_layer, callVars, pf,
                   agent_lock, ex, stabVars, sevVars>>

ConcNext ==
    \/ \E dets \in ConcFrames, d \in ConcSteps : pf_begin(dets, d)
    \/ pf_context
    \/ pf_enter("spatial", "severity")
    \/ pf_spatial_next
    \/ pf_enter("severity", "events")
    \/ pf_severity_next
    \/ pf_events
    \/ \E a \in ConcCleanupAges : cleanup_begin(a)
    \/ cleanup_sweep

SpecConc == Init /\ [][ConcNext]_vars

(***************************************************************************)
(* Claims about the Temporal Stabilizer, checked under SpecStab.           *)
(***************************************************************************)

\* The track the last update() was for, while its TrackHistory still exists.
StabLast(t) ==
    /\ stab_ret.track_id = t
    /\ t \in DOMAIN stab_tracks

\* The unlock condition as the claim words it: at least unlock_threshold of the
\* last `window` observations differ from class x.
UnlockCondition(fed, x) == Contradictions(fed, x, history_size) >= unlock_threshold

\* C1: from the update at which a track locks to class X until the first update
\* at which the unlock condition holds, every update returns X with is_locked =
\* TRUE whatever class is fed: an update that returns a locked class leaves the
\* track locked to it, and an update that starts locked to X and does not make
\* the unlock condition hold returns (X, TRUE).
C1_LockedClassHeld ==
    \A t \in StabTrackIds :
        StabLast(t) =>
            /\ stab_ret.is_locked => stab_tracks[t].locked_class = stab_ret.cls
            /\ (/\ stab_obs[t].before # None
                /\ ~UnlockCondition(stab_obs[t].fed, stab_obs[t].before))
               => (stab_ret.is_locked /\ stab_ret.cls = stab_obs[t].before)

\* A locked track was fed two contradictory frames and still returns its class.
C1_Witness ==
    \E t \in StabTrackIds :
        /\ StabLast(t)
        /\ stab_obs[t].before # None
        /\ stab_obs[t].fed[Len(stab_obs[t].fed)] # stab_obs[t].before
        /\ Contradictions(stab_obs[t].fed, stab_obs[t].before, history_size) >= 2
        /\ stab_ret.is_locked
        /\ stab_ret.cls = stab_obs[t].before

\* C7: a track that is unlocked before an update is locked after it if and only
\* if the last lock_threshold observations, the current one included, are of one
\* class; a locked track has seen lock_threshold equal classes in a row.
C7_LockIffFiveInARow ==
    \A t \in StabTrackIds :
        /\ (StabLast(t) /\ stab_obs[t].before = None)
              => (stab_ret.is_locked <=> RunOf(stab_obs[t].fed, lock_threshold))
        /\ (t \in DOMAIN stab_tracks /\ stab_tracks[t].locked_class # None)
              => stab_obs[t].had_run

\* An update locks a track, and another leaves a track with ten observations
\* unlocked.
C7_Witness ==
    \E t \in StabTrackIds :
        /\ StabLast(t)
        /\ stab_obs[t].before = None
        /\ stab_ret.is_locked
        /\ Len(stab_obs[t].fed) = lock_threshold

\* C8: a track locked to X that is fed unlock_threshold observations of other
\* classes within its next history_size updates is released by the last of them:
\* history_size updates in a row that started locked to X and returned X locked
\* hold fewer than unlock_threshold observations of other classes.
C8_UnlockWithinWindow ==
    \A t \in StabTrackIds :
        (/\ t \in DOMAIN stab_tracks
         /\ stab_tracks[t].locked_class # None
         /\ stab_obs[t].streak >= history_size)
        => ~UnlockCondition(stab_obs[t].fed, stab_tracks[t].locked_class)

\* A track that held its lock on X for some updates is released by an update
\* that makes 8 of the last 10 observations differ from X.
C8_Witness ==
    \E t \in StabTrackIds :
        /\ StabLast(t)
        /\ stab_obs[t].before # None
        /\ ~stab_ret.is_locked
        /\ Contradictions(stab_obs[t].fed, stab_obs[t].before, history_size)
              = unlock_threshold
        /\ stab_obs[t].fed[Len(stab_obs[t].fed)] # stab_obs[t].before

(***************************************************************************)
(* Claims about the Behavioral Context Tracker, checked under SpecCtx.     *)
(***************************************************************************)

\* The object was updated by the latest update() call.
InFrame(o) == frame_count > 0 /\ o.track_id \in DetIds(frame)

\* The object has not moved since it was first seen, and has a zero speed.
HeldStill(o) == Cardinality(Range(o.positions)) = 1 /\ SpeedSq(o) = 0

\* C4: an object whose velocity is held at 0 px/s and whose dwell time exceeds
\* loitering_threshold has, after the update, is_loitering = TRUE and
\* motion_pattern = "LOITERING".
C4_LoiteringPattern ==
    \A i \in 1..Len(context_engine) :
        LET o == context_engine[i]
        IN  (InFrame(o) /\ HeldStill(o) /\ o.dwell_time > loitering_threshold)
               => (o.is_loitering /\ o.motion_pattern = "LOITERING")

\* C9: after an update at timestamp t an object is flagged disappeared only if
\* it is absent from that frame and t - last_seen exceeds
\* disappearance_timeout; an object absent for no longer than the timeout is
\* not flagged, and an object present in the frame is not flagged.
C9_DisappearedAfterTimeout ==
    \A i \in 1..Len(context_engine) :
        LET o == context_engine[i]
        IN  /\ o.disappeared =>
                 /\ o.track_id \notin DetIds(frame)
                 /\ clock - o.last_seen > disappearance_timeout
            /\ InFrame(o) => ~o.disappeared

\* One object is flagged while another, absent from the same frame for no
\* longer than the timeout, is not.
C9_Witness ==
    \E i, j \in 1..Len(context_engine) :
        /\ context_engine[i].disappeared
        /\ context_engine[j].track_id \notin DetIds(frame)
        /\ clock - context_engine[j].last_seen <= disappearance_timeout
        /\ clock - context_engine[j].last_seen > 0
        /\ ~context_engine[j].disappeared

(***************************************************************************)
(* Claims about the Event Engine, checked under SpecEvents.                *)
(***************************************************************************)

AllEvents(ev) == ev.active_events \o ev.resolved_events

\* The event with the given id, active or archived.
EventBy(ev, id) == AllEvents(ev)[EventIndex(AllEvents(ev), id)]

Rank(state) ==
    CASE state = "CRITICAL" -> 4
      [] state = "WARNING" -> 3
      [] state = "SUSPICIOUS" -> 2
      [] OTHER -> 1

\* The event has one track, and this update's object states do not hold it, or
\* hold it flagged disappeared.
OnlyTrackGone(e, objs) == Len(e.track_ids) = 1 /\ ~ObjectsPresent(e, objs)

\* What an update does to the event e whose only track is gone: one level
\* down from CRITICAL and from WARNING, and never up.
OneLevelDown(e, after) ==
    /\ e.state = "CRITICAL" => after.state = "WARNING"
    /\ e.state = "WARNING" => after.state = "MONITORING"
    /\ Rank(after.state) <= Rank(e.state)

\* The event went from CRITICAL to WARNING on the latest update, its track gone.
JustDegraded(e) ==
    /\ OnlyTrackGone(e, object_states)
    /\ e.state = "WARNING"
    /\ e.state_history # <<>>
    /\ e.state_history[Len(e.state_history)] = "CRITICAL"

\* C2 as stated: an event in state CRITICAL whose only track is gone is in
\* WARNING after the next update and in MONITORING after the one after that,
\* never going from CRITICAL to MONITORING directly and never moving back up.
C2_DegradesEveryUpdate ==
    [][frame_count' # frame_count =>
        /\ \A i \in 1..Len(event_layer.active_events) :
              LET e == event_layer.active_events[i]
              IN  OnlyTrackGone(e, object_states')
                     => OneLevelDown(e, EventBy(event_layer', e.event_id))
        /\ \A i \in 1..Len(AllEvents(event_layer)) :
              LET e == AllEvents(event_layer)[i]
              IN  (JustDegraded(e) /\ OnlyTrackGone(e, object_states'))
                     => EventBy(event_layer', e.event_id).state = "MONITORING"]_vars

\* C2, amended: the same, for an event that is in the active set when the
\* update is called.  An event already archived keeps the state it was
\* archived in.
C2_DegradesWhileActive ==
    [][frame_count' # frame_count =>
        /\ \A i \in 1..Len(event_layer.active_events) :
              LET e == event_layer.active_events[i]
              IN  OnlyTrackGone(e, object_states')
                     => OneLevelDown(e, EventBy(event_layer', e.event_id))
        /\ \A i \in 1..Len(event_layer.resolved_events) :
              event_layer'.resolved_events[i] = event_layer.resolved_events[i]]_vars

\* An active event has gone CRITICAL, WARNING, MONITORING with its track gone.
C2_Witness ==
    \E i \in 1..Len(event_layer.active_events) :
        LET e == event_layer.active_events[i]
        IN  /\ OnlyTrackGone(e, object_states)
            /\ e.state_history = <<"CRITICAL", "WARNING">>
            /\ e.state = "MONITORING"

\* C3: after an update at timestamp t no active event is older than max_age;
\* every event older than max_age is in the archive with resolved = TRUE and
\* is not in the active set, whatever its state; and an update loses no event.
C3_StaleEventsArchived ==
    [][frame_count' # frame_count =>
        /\ \A i \in 1..Len(event_layer'.active_events) :
              /\ clock' - event_layer'.active_events[i].timestamp <= event_max_age
              /\ ~event_layer'.active_events[i].resolved
        /\ \A i \in 1..Len(event_layer'.resolved_events) :
              /\ event_layer'.resolved_events[i].resolved
              /\ event_layer'.resolved_events[i].event_id
                    \notin EventIds(event_layer'.active_events)
        /\ \A i \in 1..Len(event_layer.active_events) :
              LET e == event_layer.active_events[i]
              IN  IF clock' - e.timestamp > event_max_age
                    THEN e.event_id \in EventIds(event_layer'.resolved_events)
                    ELSE e.event_id \in EventIds(event_layer'.active_events)]_vars

\* An event archived in state CRITICAL, and one archived after it degraded.
C3_Witness ==
    /\ \E i \in 1..Len(event_layer.resolved_events) :
          /\ event_layer.resolved_events[i].state = "CRITICAL"
          /\ event_layer.resolved_events[i].resolved
          /\ clock - event_layer.resolved_events[i].timestamp > event_max_age
    /\ \E i \in 1..Len(event_layer.resolved_events) :
          event_layer.resolved_events[i].state # "CRITICAL"

(***************************************************************************)
(* Claims about the pipeline, checked under SpecE2E and SpecZones.         *)
(***************************************************************************)

IsLoitering(e) == e.event_type = "loitering"

\* The LOITERING events the event layer has emitted so far: frames stamped
\* differently give different event ids, and an event is only ever moved from
\* the active set to the archive.
LoiteringEvents == SelectSeq(AllEvents(event_layer), IsLoitering)

\* Six frames have been fed, every one reached the context engine, the person
\* has not moved, and the last frame is 12 s after the first.
SixFramesOverTwelveSeconds ==
    /\ frame_count = 6
    /\ 1 \in Ids(context_engine)
    /\ Len(Get(context_engine, 1).positions) = 6
    /\ HeldStill(Get(context_engine, 1))
    /\ clock - Get(context_engine, 1).first_seen = 12

C10_ExitViolationEmitted ==
    [][frame_count' # frame_count =>
        \A tid \in DOMAIN spatial_engine.object_zones :
            LET zid == spatial_engine.object_zones[tid]
                zone == ZoneGet(spatial_engine.zones, zid)
            IN  (/\ zone.zone_type = "entry_only"
                 /\ tid \in DetIds(result'.smoothed_detections)
                 /\ ~point_in_polygon(get_centroid(Get(context_engine', tid)),
                                      zone.polygon))
                   => \E k \in 1..Len(result'.spatial_violations) :
                         /\ result'.spatial_violations[k].track_id = tid
                         /\ result'.spatial_violations[k].zone_id = zid
                         /\ result'.spatial_violations[k].violation_type
                               = "exit_violation"]_vars

(***************************************************************************)
(* Claims about concurrent access, checked under SpecConc.                 *)
(***************************************************************************)

\* process_frame has an iterator open on the track map.
Iterating == pf.pc \in {"spatial", "severity"} /\ pf.i >= 1

\* C6: a cleanup sweep never removes entries from the ObjectState track map
\* while a process_frame call is iterating that map; cleanup and frame
\* processing are mutually exclusive on the track map.
C6_NoSweepWhileIterating ==
    [][Iterating => Ids(context_engine') = Ids(context_engine)]_vars

(***************************************************************************)
(* Claims about the spatial engine, checked under SpecSpatial.             *)
(***************************************************************************)

\* The object tid is tracked, not disappeared, and its latest centroid lies
\* inside the zone.
InsideZone(objs, tid, zone) ==
    /\ tid \in Ids(objs)
    /\ ~Get(objs, tid).disappeared
    /\ point_in_polygon(get_centroid(Get(objs, tid)), zone.polygon)

\* The violations of a result for one track and one zone.
ViolationsOf(res, tid, zid) ==
    SelectSeq(res.spatial_violations,
              LAMBDA v : v.track_id = tid /\ v.zone_id = zid)

Emitted(res, tid, zid, vtype) ==
    \E k \in 1..Len(res.spatial_violations) :
        /\ res.spatial_violations[k].track_id = tid
        /\ res.spatial_violations[k].zone_id = zid
        /\ res.spatial_violations[k].violation_type = vtype

\* C11: an update emits an ENTRY_VIOLATION for a track and an EXIT_ONLY zone Z
\* only if the object is inside Z now and was not inside Z on the previous
\* update, and it does emit one when the object is inside Z now and was
\* tracked outside Z, or not tracked at all, on the previous update; an
\* object that stays inside Z gets no further ENTRY_VIOLATION, also when Z
\* overlaps other zones.
C11_EntryViolationOnlyOnEntry ==
    [][frame_count' # frame_count =>
        \A k \in 1..Len(spatial_engine.zones) :
            LET zone == spatial_engine.zones[k]
            IN  (zone.zone_type = "exit_only" /\ zone.active) =>
                  \A tid \in Ids(context_engine') :
                      LET inside_now == InsideZone(context_engine', tid, zone)
                          stayed == InsideZone(context_engine, tid, zone)
                          newly == \/ tid \notin Ids(context_engine)
                                   \/ /\ ~Get(context_engine, tid).disappeared
                                      /\ ~stayed
                          emitted == Emitted(result', tid, zone.zone_id,
                                             "entry_violation")
                      IN  /\ emitted => (inside_now /\ ~stayed)
                          /\ (inside_now /\ newly) => emitted]_vars

\* A restricted, active zone with "person" on its deny-list.
DeniesPersons(zone) ==
    /\ zone.zone_type = "restricted"
    /\ zone.active
    /\ zone.denied_classes # None
    /\ "person" \in zone.denied_classes[1]

\* The violations of the access rules (every rule but the crowd limit) that
\* the latest update found for one track and one zone.
AccessViolations(tid, zid) ==
    SelectSeq(ViolationsOf(result, tid, zid),
              LAMBDA v : v.violation_type # "crowd_limit_exceeded")

Occupants(zone) ==
    {tid \in Ids(context_engine) : InsideZone(context_engine, tid, zone)}

\* C13: after every update each zone's current_occupancy is the number of
\* non-disappeared objects whose latest centroid lies inside the zone, and 0
\* for an inactive zone, whatever the counts were before.
C13_OccupancyRecomputed ==
    \A k \in 1..Len(spatial_engine.zones) :
        LET zone == spatial_engine.zones[k]
        IN  zone.current_occupancy =
               IF zone.active THEN Cardinality(Occupants(zone)) ELSE 0

\* The vault held two persons on an earlier update and holds none now, while
\* one of them, disappeared, still has its last centroid inside.
C13_Witness ==
    /\ frame_count = SpatialMaxFrames
    /\ "vault" \in ZoneIds(spatial_engine.zones)
    /\ ZoneGet(spatial_engine.zones, "vault").current_occupancy = 0
    /\ 2 \in Ids(context_engine)
    /\ Get(context_engine, 2).disappeared
    /\ point_in_polygon(get_centroid(Get(context_engine, 2)),
                        ZoneGet(spatial_engine.zones, "vault").polygon)

\* C14: add_zone rejects a polygon of fewer than 3 vertices, so the zone
\* table never holds one.
C14_DegenerateZoneRejected ==
    \A k \in 1..Len(spatial_engine.zones) :
        Len(spatial_engine.zones[k].polygon) >= 3

(***************************************************************************)
(* Claims about the agent's frame processing, checked under SpecAgent.     *)
(***************************************************************************)

\* bbox with x1 >= x2 or y1 >= y2, or a confidence outside [0, 1].
Malformed(det) ==
    \/ det.bbox[1] >= det.bbox[3]
    \/ det.bbox[2] >= det.bbox[4]
    \/ det.confidence[1] < 0
    \/ det.confidence[1] > det.confidence[2]

\* C15: a malformed detection of the latest frame is dropped: its track is in
\* no smoothed detection and has no temporal or behavioural state (the tracks
\* of the malformed detections fed here never come well-formed), and the
\* call does not fail.
C15_MalformedDropped ==
    /\ result.raised = None
    /\ \A i \in 1..Len(frame) :
          Malformed(frame[i]) =>
              /\ frame[i].track_id \notin DetIds(result.smoothed_detections)
              /\ frame[i].track_id \notin Ids(temporal_layer)
              /\ frame[i].track_id \notin Ids(context_engine)

IsPrefix(s, t) == Len(s) <= Len(t) /\ \A i \in 1..Len(s) : s[i] = t[i]

\* C17: on every update, each event the detectors create is in the active
\* set afterwards, and each event that was in the active set or the archive
\* is afterwards in exactly one of the two, with its own state history
\* carried on.
C17_EventsNeverLost ==
    [][(frame_count' # frame_count /\ context_engine' # <<>>) =>
        LET created == detect_all(event_layer, context_engine',
                                  result'.spatial_violations, clock')
            before == AllEvents(event_layer)
            after == AllEvents(event_layer')
        IN  /\ \A k \in 1..Len(created) :
                  created[k] \in Range(event_layer'.active_events)
            /\ \A i \in 1..Len(before) :
                  /\ Cardinality({j \in 1..Len(after) :
                                    after[j].event_id = before[i].event_id}) = 1
                  /\ \E j \in 1..Len(after) :
                        /\ after[j].event_id = before[i].event_id
                        /\ IsPrefix(before[i].state_history,
                                    after[j].state_history)]_vars

\* C18: the active_events a process_frame call returns is the event layer's
\* active set after the call.
C18_ReturnsActiveSet ==
    (frame_count > 0 /\ result.raised = None) =>
        result.active_events = event_layer.active_events

\* C19: in every result, critical_alerts holds exactly the events of
\* active_events that are CRITICAL or have a severity_score of at least 0.7,
\* in their order.
C19_CriticalAlertsExact ==
    /\ \A i \in 1..Len(result.critical_alerts) :
          result.critical_alerts[i] \in Range(result.active_events)
    /\ \A i \in 1..Len(result.active_events) :
          LET e == result.active_events[i]
          IN  (e \in Range(result.critical_alerts)) <=>
                 \/ e.state = "CRITICAL"
                 \/ 10 * e.severity_score[1] >= 7 * e.severity_score[2]
    /\ Len(result.critical_alerts) <= Len(result.active_events)

\* A result with an alert raised on its score alone (state WARNING) next to
\* an active event that is no alert.
C19_Witness ==
    /\ \E i \in 1..Len(result.critical_alerts) :
          result.critical_alerts[i].state # "CRITICAL"
    /\ \E i \in 1..Len(result.active_events) :
          result.active_events[i] \notin Range(result.critical_alerts)

(***************************************************************************)
(* The temporal layer's output, checked under SpecE2E.                     *)
(***************************************************************************)

\* C16: the smoothed detection list of a frame has exactly one entry per
\* input detection, one for each input track, however low the confidence.
C16_OneOutputPerDetection ==
    /\ Len(result.smoothed_detections) = Len(frame)
    /\ DetIds(result.smoothed_detections) = DetIds(frame)

(***************************************************************************)
(* The severity engine, ai_agent/severity_engine.py.  A factor is counted  *)
(* in thousandths, a weight in hundredths, and so a score in units of      *)
(* 1/ScoreScale.  violation_history maps a track id to the timestamps of   *)
(* its recorded violations; datetime.now() is clock.                       *)
(***************************************************************************)

ScoreScale == 100000

\* self.weights; they sum to 1.0, so the constructor does not normalise them.
weights == [duration |-> 25, zone |-> 20, class |-> 15, speed |-> 15, time |-> 10, crowd |-> 10, history |-> 5]

loitering_duration_threshold == 10

high_speed_threshold == 100

night_start == 22 * 3600

night_end == 6 * 3600

crowd_threshold == 20

\* self.class_priority.get(class_name, self.class_priority['default'])
compute_class_factor(class_name) ==
    CASE class_name \in {"person", "knife", "gun"} -> 1000
      [] class_name = "motorcycle" -> 800
      [] class_name \in {"car", "truck"} -> 700
      [] class_name \in {"bus", "bicycle"} -> 600
      [] class_name \in {"backpack", "suitcase"} -> 500
      [] class_name = "handbag" -> 400
      [] OTHER -> 300

\* floor(100 * ln(1 + x)) for x = 0 .. 20 : 0.1 * np.log1p(x) in thousandths.
Log1pTable == <<0, 69, 109, 138, 160, 179, 194, 207, 219, 230, 239, 248, 256, 263, 270, 277, 283, 289, 294, 299, 304>>

\* min(0.7, 0.1 * np.log1p(excess)); 0.1 * ln(1 + x) reaches 0.7 at x = 1096.
log1p_term(excess) ==
    IF excess >= 1096 THEN 700 ELSE Min(700, Log1pTable[excess + 1])

compute_duration_factor(object_state) ==
    LET dwell == object_state.dwell_time
    IN  IF dwell < loitering_duration_threshold
          THEN (dwell * 300) \div loitering_duration_threshold
          ELSE 300 + log1p_term(dwell - loitering_duration_threshold)

\* zone_info is <<>> for None, else <<[type, severity_weight]>>; base is
\* base_scores.get(zone_type, 0.3).
compute_zone_factor(zone_info) ==
    IF zone_info = <<>> THEN 100
    ELSE LET zone_type == zone_info[1].type
             base == CASE zone_type = "restricted" -> 900
                       [] zone_type = "time_restricted" -> 700
                       [] zone_type \in {"entry_only", "exit_only"} -> 600
                       [] zone_type = "crowd_limit" -> 500
                       [] OTHER -> 300
         IN  (base * zone_info[1].severity_weight) \div WeightScale

\* The speed factor with the acceleration flag tested first.
compute_speed_factor_acceleration_first(object_state) ==
    IF object_state.is_accelerating THEN 700
    ELSE IF SpeedBelow(object_state, 5) THEN 600
    ELSE IF SpeedAbove(object_state, high_speed_threshold)
      THEN LET excess == ISqrt(SpeedSq(object_state)) - VelScale * high_speed_threshold
           IN  Min(1000, 600 + (4 * excess) \div VelScale)
    ELSE 200

compute_speed_factor(object_state) ==
    IF SpeedBelow(object_state, 5) THEN 600
    ELSE IF SpeedAbove(object_state, high_speed_threshold)
      THEN LET excess == ISqrt(SpeedSq(object_state)) - VelScale * high_speed_threshold
           IN  Min(1000, 600 + (4 * excess) \div VelScale)
    ELSE IF object_state.is_accelerating THEN 700
    ELSE 200

compute_time_factor(timestamp) ==
    LET current_time == time_of_day(timestamp)
    IN  IF night_start <= current_time \/ current_time <= night_end THEN 800
        ELSE IF 6 * 3600 <= current_time /\ current_time <= 9 * 3600 THEN 400
        ELSE IF 9 * 3600 <= current_time /\ current_time <= 17 * 3600 THEN 200
        ELSE 500

compute_crowd_factor(crowd_count) ==
    IF 2 * crowd_count < crowd_threshold THEN 200
    ELSE IF crowd_count < crowd_threshold THEN 400
    ELSE Min(900, 500 + 20 * (crowd_count - crowd_threshold))

compute_history_factor(violation_history, track_id, now) ==
    IF track_id \notin DOMAIN violation_history THEN 100
    ELSE IF violation_history[track_id] = <<>> THEN 100
    ELSE LET recent == SelectSeq(violation_history[track_id], LAMBDA v : now - v < SecondsPerDay)
         IN  CASE Len(recent) = 0 -> 200
               [] Len(recent) = 1 -> 400
               [] Len(recent) = 2 -> 600
               [] OTHER -> 900

\* The score left as the weighted sum.
no_clip(a, a_min, a_max) == a

\* np.clip
clip(a, a_min, a_max) == Min(Max(a, a_min), a_max)

\* The boundaries taken as upper-inclusive.
from_score_upper_inclusive(score) ==
    IF 10 * score <= 3 * ScoreScale THEN "LOW"
    ELSE IF 10 * score <= 5 * ScoreScale THEN "MEDIUM"
    ELSE IF 10 * score <= 7 * ScoreScale THEN "HIGH"
    ELSE "CRITICAL"

\* SeverityLevel.from_score
from_score(score) ==
    IF 10 * score < 3 * ScoreScale THEN "LOW"
    ELSE IF 10 * score < 5 * ScoreScale THEN "MEDIUM"
    ELSE IF 10 * score < 7 * ScoreScale THEN "HIGH"
    ELSE "CRITICAL"

RECURSIVE WeightedSum(_, _)
\* sum(self.weights[key] * value for key, value in factors.items())
WeightedSum(factors, keys) ==
    IF keys = {} THEN 0
    ELSE LET key == CHOOSE k \in keys : TRUE
         IN  weights[key] * factors[key] + WeightedSum(factors, keys \ {key})

\* compute_severity: (score, severity, factors).
compute_severity(violation_history, object_state, zone_info, crowd_count, timestamp, now) ==
    The({ [score |-> clip(WeightedSum(factors, DOMAIN factors), 0, ScoreScale),
           severity |-> from_score(clip(WeightedSum(factors, DOMAIN factors), 0, ScoreScale)),
           factors |-> factors]
        : factors \in {[duration |-> compute_duration_factor(object_state),
                        zone |-> compute_zone_factor(zone_info),
                        class |-> compute_class_factor(object_state.class_name),
                        speed |-> compute_speed_factor(object_state),
                        time |-> compute_time_factor(timestamp),
                        crowd |-> compute_crowd_factor(crowd_count),
                        history |-> compute_history_factor(violation_history, object_state.track_id, now)]} })

\* record_violation: append, then keep the last seven days before timestamp.
record_violation(violation_history, track_id, timestamp) ==
    LET old == IF track_id \in DOMAIN violation_history THEN violation_history[track_id] ELSE <<>>
        cutoff == timestamp - 7 * SecondsPerDay
    IN  DictSet(violation_history, track_id, SelectSeq(Append(old, timestamp), LAMBDA v : v > cutoff))

(***************************************************************************)
(* SpecSeverity: compute_severity called on object states with in-range    *)
(* and out-of-range fields, between recorded violations.                   *)
(***************************************************************************)

SevMaxViolations == 3

SevObject(track_id, class_name, dwell_time, velocity, is_accelerating) ==
    [NewObjectState(track_id, class_name, 0) EXCEPT !.dwell_time = dwell_time, !.velocity = velocity, !.is_accelerating = is_accelerating]

SevObjects ==
    {SevObject(1, "person", -100, None, FALSE),
     SevObject(1, "person", 5, <<50 * VelScale, 0>>, TRUE),
     SevObject(1, "person", 5, <<2 * VelScale, 0>>, TRUE),
     SevObject(1, "person", 30, <<150 * VelScale, 0>>, FALSE),
     SevObject(1, "drone", 12, <<50 * VelScale, 0>>, FALSE),
     SevObject(2, "car", 2000, <<400 * VelScale, 300 * VelScale>>, TRUE)}

SevZoneInfos ==
    {<<>>,
     <<[type |-> "restricted", severity_weight |-> 10 * WeightScale]>>,
     <<[type |-> "normal", severity_weight |-> WeightScale]>>,
     <<[type |-> "lobby", severity_weight |-> 0 - 10 * WeightScale]>>}

SevCrowds == {0, 15, 1000}

SevTimestamps == {7 * 3600, 12 * 3600, 18 * 3600, 23 * 3600}

SevViolationTimes == {clock, clock - 8 * SecondsPerDay}

\* compute_severity recording a violation of the track when the score reaches
\* the CRITICAL level.
SeverityScoreEngine_compute_severity_recording(object_state, zone_info, crowd_count, timestamp) ==
    \E r \in {compute_severity(severity_engine, object_state, zone_info, crowd_count, timestamp, clock)} :
        /\ severity_ret' = [score |-> r.score, severity |-> r.severity, factors |-> r.factors, object_state |-> object_state]
        /\ severity_engine' = IF r.severity = "CRITICAL" /\ object_state.track_id \notin DOMAIN severity_engine
                                 THEN record_violation(severity_engine, object_state.track_id, clock)
                                 ELSE severity_engine
        /\ UNCHANGED <<level_ret, engineVars, callVars, threadVars, stabVars>>

SeverityScoreEngine_compute_severity(object_state, zone_info, crowd_count, timestamp) ==
    /\ \E r \in {compute_severity(severity_engine, object_state, zone_info, crowd_count, timestamp, clock)} :
           severity_ret' = [score |-> r.score, severity |-> r.severity, factors |-> r.factors, object_state |-> object_state]
    /\ UNCHANGED <<severity_engine, level_ret, engineVars, callVars, threadVars, stabVars>>

SeverityScoreEngine_record_violation(track_id, timestamp) ==
    /\ IF track_id \in DOMAIN severity_engine THEN Len(severity_engine[track_id]) < SevMaxViolations ELSE TRUE
    /\ severity_engine' = record_violation(severity_engine, track_id, timestamp)
    /\ UNCHANGED <<severity_ret, level_ret, engineVars, callVars, threadVars, stabVars>>

SeverityNext ==
    \/ \E o \in SevObjects, z \in SevZoneInfos, c \in SevCrowds, t \in SevTimestamps :
          SeverityScoreEngine_compute_severity(o, z, c, t)
    \/ \E t \in SevViolationTimes : SeverityScoreEngine_record_violation(1, t)

SpecSeverity == Init /\ [][SeverityNext]_vars

\* C20: whatever the inputs (a negative dwell time, a zone severity_weight
\* above 1 or below 0, a crowd far over the threshold), compute_severity
\* returns a score within [0, 1], with the level of that score.
C20_ScoreWithinUnitInterval ==
    severity_ret # <<>> =>
        /\ 0 <= severity_ret.score
        /\ severity_ret.score <= ScoreScale
        /\ severity_ret.severity = from_score(severity_ret.score)

\* A return whose weighted sum of factors lies above 1: the score is 1.
C20_Witness ==
    /\ severity_ret # <<>>
    /\ WeightedSum(severity_ret.factors, DOMAIN severity_ret.factors) > ScoreScale
    /\ severity_ret.score = ScoreScale

\* A return whose weighted sum of factors is negative: the score is 0.
C20_WitnessNegative ==
    /\ severity_ret # <<>>
    /\ WeightedSum(severity_ret.factors, DOMAIN severity_ret.factors) < 0
    /\ severity_ret.score = 0

\* C21: each of the seven factors of the breakdown returned by
\* compute_severity lies within [0, 1].
C21_FactorsWithinUnitInterval ==
    severity_ret # <<>> =>
        \A key \in DOMAIN severity_ret.factors :
            0 <= severity_ret.factors[key] /\ severity_ret.factors[key] <= 1000

(***************************************************************************)
(* The stabilizer again, checked under SpecStab.                           *)
(***************************************************************************)

\* The last update of track t started locked to a class and fed that class.
FedLockedClass(t) ==
    /\ StabLast(t)
    /\ stab_obs[t].before # None
    /\ stab_obs[t].fed[Len(stab_obs[t].fed)] = stab_obs[t].before

\* C23: an update that feeds a track the class X it is locked to returns
\* (X, is_locked = TRUE) and leaves the track locked to X, whatever the
\* history window holds.
C23_LockedClassIdempotent ==
    \A t \in StabTrackIds :
        FedLockedClass(t) =>
            /\ stab_ret.is_locked
            /\ stab_ret.cls = stab_obs[t].before
            /\ stab_tracks[t].locked_class = stab_obs[t].before

\* A track locked to X whose window holds seven observations of another class
\* is fed X and stays locked to X.
C23_Witness ==
    \E t \in StabTrackIds :
        /\ FedLockedClass(t)
        /\ Contradictions(stab_obs[t].fed, stab_obs[t].before, history_size) = unlock_threshold - 1
        /\ stab_ret.is_locked
        /\ stab_ret.cls = stab_obs[t].before

(***************************************************************************)
(* SpecLevels: SeverityLevel.from_score applied to scores on a grid of     *)
(* 1/200 from -0.1 to 1.1, the three boundaries among them.                *)
(***************************************************************************)

LevelScores == {(k * ScoreScale) \div 200 : k \in (0 - 20)..220}

SeverityLevel_from_score(score) ==
    /\ level_ret' = [score |-> score, level |-> from_score(score)]
    /\ UNCHANGED <<severity_engine, severity_ret, engineVars, callVars, threadVars, stabVars>>

LevelNext == \E score \in LevelScores : SeverityLevel_from_score(score)

SpecLevels == Init /\ [][LevelNext]_vars

LevelRank(level) ==
    CASE level = "LOW" -> 1 [] level = "MEDIUM" -> 2 [] level = "HIGH" -> 3 [] level = "CRITICAL" -> 4

\* C22: the level of a score is LOW below 0.3, MEDIUM from 0.3 to below 0.5,
\* HIGH from 0.5 to below 0.7 and CRITICAL from 0.7 on, so that exactly 0.3,
\* 0.5 and 0.7 give MEDIUM, HIGH and CRITICAL; no lower score has a higher
\* level.
C22_LowerInclusiveLevels ==
    level_ret # <<>> =>
        LET score == level_ret.score
            level == level_ret.level
        IN  /\ (level = "LOW") <=> (10 * score < 3 * ScoreScale)
            /\ (level = "MEDIUM") <=> (3 * ScoreScale <= 10 * score /\ 10 * score < 5 * ScoreScale)
            /\ (level = "HIGH") <=> (5 * ScoreScale <= 10 * score /\ 10 * score < 7 * ScoreScale)
            /\ (level = "CRITICAL") <=> (7 * ScoreScale <= 10 * score)
            /\ \A lower \in LevelScores :
                  lower <= score => LevelRank(from_score(lower)) <= LevelRank(level)

\* A score of exactly 0.7 got CRITICAL.
C22_Witness ==
    /\ level_ret # <<>>
    /\ 10 * level_ret.score = 7 * ScoreScale
    /\ level_ret.level = "CRITICAL"

(***************************************************************************)
(* SpecPolygon: the square zone (0,0),(10,0),(10,10),(0,10) and objects    *)
(* whose boxes are centred on (5, 5) and on (15, 5).                       *)
(***************************************************************************)

PolyMaxFrames == 3

PolyZone == [zone_id |-> "square", polygon |-> Square(0, 0, 10, 10), zone_type |-> "normal", kwargs |-> ZoneDefaults]

CentreBox == Box(0, 0, 10, 10)

RightBox == Box(10, 0, 20, 10)

PolyFrames ==
    {<<>>,
     <<Det(1, CentreBox, HighConfidence, "person")>>,
     <<Det(1, RightBox, HighConfidence, "person")>>,
     <<Det(1, CentreBox, HighConfidence, "person"), Det(2, RightBox, HighConfidence, "person")>>,
     <<Det(1, RightBox, HighConfidence, "person"), Det(2, CentreBox, HighConfidence, "person")>>,
     <<Det(2, CentreBox, HighConfidence, "person"), Det(3, CentreBox, HighConfidence, "car")>>}

PolySteps == {1, 3}

PolyNext ==
    \/ configure_zone(PolyZone)
    \/ \E dets \in PolyFrames, d \in PolySteps :
          AIReasoningAgent_process_frame(dets, d, PolyMaxFrames)

SpecPolygon == Init /\ [][PolyNext]_vars

\* A point in position units.
PolyPoint(x, y) == <<PosScale * x, PosScale * y>>

\* The tracked objects the latest spatial update has tested against the zones.
Tested == {i \in 1..Len(context_engine) : ~context_engine[i].disappeared /\ get_centroid(context_engine[i]) # None}

\* The membership test's answer for the object, as the engine recorded it.
InSquare(obj) ==
    /\ obj.track_id \in DOMAIN spatial_engine.object_zones
    /\ spatial_engine.object_zones[obj.track_id] = "square"

\* C24: with the square zone (0,0),(10,0),(10,10),(0,10), an object at (5, 5)
\* is found inside it and an object at (15, 5) outside it, and two objects
\* at the same point get the same answer.
C24_SquareMembership ==
    (frame_count > 0 /\ "square" \in ZoneIds(spatial_engine.zones)) =>
        \A i \in Tested :
            LET obj == context_engine[i]
            IN  /\ get_centroid(obj) = PolyPoint(5, 5) => InSquare(obj)
                /\ get_centroid(obj) = PolyPoint(15, 5) => ~InSquare(obj)
                /\ \A j \in Tested :
                      get_centroid(context_engine[j]) = get_centroid(obj)
                         => (InSquare(context_engine[j]) <=> InSquare(obj))

\* One object at (5, 5) found inside the square, another at (15, 5) found
\* outside it.
C24_Witness ==
    /\ frame_count > 0
    /\ "square" \in ZoneIds(spatial_engine.zones)
    /\ \E i \in Tested : get_centroid(context_engine[i]) = PolyPoint(5, 5) /\ InSquare(context_engine[i])
    /\ \E i \in Tested : get_centroid(context_engine[i]) = PolyPoint(15, 5) /\ ~InSquare(context_engine[i])

(***************************************************************************)
(* The event layer again, checked under SpecEvents.                        *)
(***************************************************************************)

\* The order of the states as the claim gives it.
StateRank(state) ==
    CASE state = "CRITICAL" -> 4
      [] state = "SUSPICIOUS" -> 3
      [] state = "WARNING" -> 2
      [] state = "MONITORING" -> 1
      [] OTHER -> 0

\* C25: an update never moves an existing event's state upward, and leaves
\* it unchanged when one of the event's tracks is present and not
\* disappeared; a detector that fires adds a new event and escalates none.
C25_NeverEscalates ==
    [][frame_count' # frame_count =>
        \A i \in 1..Len(event_layer.active_events) :
            LET e == event_layer.active_events[i]
                after == EventBy(event_layer', e.event_id)
            IN  /\ StateRank(after.state) <= StateRank(e.state)
                /\ ObjectsPresent(e, object_states') => after.state = e.state]_vars

EventStates == {"MONITORING", "WARNING", "SUSPICIOUS", "CRITICAL"}

\* C26: every event of the active set and of the resolved archive is in
\* MONITORING, WARNING, SUSPICIOUS or CRITICAL, never in NORMAL, and it has
\* never been in NORMAL.
C26_NoEventIsNormal ==
    \A i \in 1..Len(AllEvents(event_layer)) :
        LET e == AllEvents(event_layer)[i]
        IN  /\ e.state \in EventStates
            /\ Range(e.state_history) \subseteq EventStates

\* An event created in CRITICAL was downgraded to MONITORING and archived
\* there, and an active event sits in MONITORING with its track gone.
C26_Witness ==
    /\ \E i \in 1..Len(event_layer.resolved_events) :
          /\ event_layer.resolved_events[i].state = "MONITORING"
          /\ event_layer.resolved_events[i].state_history = <<"CRITICAL", "WARNING">>
    /\ \E i \in 1..Len(event_layer.active_events) :
          /\ event_layer.active_events[i].state = "MONITORING"
          /\ ~ObjectsPresent(event_layer.active_events[i], object_states)

(***************************************************************************)
(* Intrusion events, checked under SpecAgent.                              *)
(***************************************************************************)

IsAccessViolation(v) == v.violation_type \in {"restricted_access", "time_violation"}

\* The active intrusion events stamped with the given time.
IntrusionsAt(ev, timestamp) ==
    {i \in 1..Len(ev.active_events) :
        /\ ev.active_events[i].event_type = "intrusion"
        /\ ev.active_events[i].timestamp = timestamp}

\* C27: the n violations of type restricted_access or time_violation that a
\* frame hands to the event layer leave n new intrusion events in the active
\* set, each in WARNING, one for the track and zone of each violation.
C27_OneEventPerViolation ==
    [][(frame_count' # frame_count /\ context_engine' # <<>>) =>
        LET found == SelectSeq(result'.spatial_violations, IsAccessViolation)
            new == IntrusionsAt(event_layer', clock')
        IN  /\ Cardinality(new) = Len(found)
            /\ \A i \in new : event_layer'.active_events[i].state = "WARNING"
            /\ \A k \in 1..Len(found) :
                  \E i \in new :
                      /\ event_layer'.active_events[i].track_ids = <<found[k].track_id>>
                      /\ event_layer'.active_events[i].zone_id = found[k].zone_id]_vars

(***************************************************************************)
(* SpecTheft: the event layer fed a person and a backpack: side by side,   *)
(* side by side with the person running, far apart, and the person alone.  *)
(***************************************************************************)

\* A backpack centred on (110, 100).
NearBagBox == Box(100, 90, 120, 110)

\* Person 1 at (100, 100) next to backpack 2, first seen on this frame.
SceneTheftNear ==
    FeedAll(<<>>, <<<<Det(1, Standing(0), HighConfidence, "person"), Det(2, NearBagBox, HighConfidence, "backpack")>>>>, 0)

\* Person 1 moving four pixels a frame past backpack 2, for five frames.
SceneTheftRun ==
    FeedAll(<<>>, [n \in 1..5 |-> <<Det(1, Standing(4 * (n - 1)), HighConfidence, "person"), Det(2, NearBagBox, HighConfidence, "backpack")>>], 0)

\* Person 1 at (300, 100), 190 px from backpack 2.
SceneTheftApart ==
    FeedAll(<<>>, <<<<Det(1, FarBox, HighConfidence, "person"), Det(2, NearBagBox, HighConfidence, "backpack")>>>>, 0)

\* Person 1 alone: the backpack is not in the object set.
SceneTheftNoBag ==
    FeedAll(<<>>, <<<<Det(1, Standing(0), HighConfidence, "person")>>>>, 0)

TheftScenes == {SceneTheftNear, SceneTheftRun, SceneTheftApart, SceneTheftNoBag}

TheftSteps == {1, 3}

TheftNext == \E scene \in TheftScenes, d \in TheftSteps : event_update(scene, d)

SpecTheft == Init /\ [][TheftNext]_vars

\* The pair is in the object set, neither member disappeared, within
\* theft_proximity of each other.
PairNear(objs, key) ==
    /\ key[1] \in Ids(objs)
    /\ key[2] \in Ids(objs)
    /\ ~Get(objs, key[1]).disappeared
    /\ ~Get(objs, key[2]).disappeared
    /\ TheftNear(Get(objs, key[1]), Get(objs, key[2]))

\* C28: after an update, person_object_interactions holds an entry only for
\* a pair that this update found within 50 px of each other, so a theft
\* event's interaction time spans no update in which the pair was apart or
\* a member was missing.
C28_InteractionClearedWhenApart ==
    frame_count > 0 =>
        \A key \in DOMAIN event_layer.person_object_interactions :
            PairNear(object_states, key)

\* The objects of the latest update that have fewer than two position samples.
ShortHistory ==
    {i \in 1..Len(object_states) :
        ~object_states[i].disappeared /\ Len(object_states[i].positions) < 2}

\* C29: an object with fewer than two position samples has no velocity and
\* is not taken for a stationary one: its motion_pattern is not STOPPED, its
\* severity speed factor is not the 0.6 of a stopped object, and this update
\* starts no abandoned-object static timer for it.
C29_InsufficientHistoryNotStationary ==
    frame_count > 0 =>
        \A i \in ShortHistory :
            LET obj == object_states[i]
            IN  /\ obj.velocity = None
                /\ obj.motion_pattern # "STOPPED"
                /\ compute_speed_factor(obj) # 600
                /\ ~(/\ obj.track_id \in DOMAIN event_layer.static_objects
                     /\ event_layer.static_objects[obj.track_id] = clock)

(***************************************************************************)
(* The cleanup sweep, checked under SpecAgent.                             *)
(***************************************************************************)

\* The tracks last seen more than max_age_seconds ago.
StaleTracks(max_age_seconds) ==
    {tid \in Ids(context_engine) :
        clock - Get(context_engine, tid).last_seen > max_age_seconds}

\* C30: when cleanup(max_age) returns, neither the ObjectState map nor the
\* temporal layer's state map holds an entry for a track last seen more than
\* max_age seconds ago.
C30_CleanupEvictsStaleState ==
    [][(frame_count' = frame_count /\ context_engine' # context_engine) =>
        \A a \in AgentCleanupAges :
            /\ StaleTracks(a) \cap Ids(context_engine') = {}
            /\ StaleTracks(a) \cap Ids(temporal_layer') = {}]_vars

(***************************************************************************)
(* The detectors one by one, checked under SpecEvents.                     *)
(***************************************************************************)

\* The loitering events of a track among the given events.
LoitersOf(events, tid) ==
    {i \in 1..Len(events) : events[i].event_type = "loitering" /\ events[i].track_ids = <<tid>>}

\* C31: every update in which a person qualifies (is_loitering, dwell_time
\* over loitering_time_threshold, path movement under
\* loitering_movement_threshold) adds a new MONITORING loitering event for
\* the track; at a timestamp later than the previous update's, the active
\* set then holds one more loitering event of the track than it kept from
\* before, so k qualifying updates within max_age leave k of them.
C31_LoiteringEventPerUpdate ==
    [][frame_count' # frame_count =>
        \A k \in 1..Len(object_states') :
            LET o == object_states'[k]
                before == event_layer.active_events
                after == event_layer'.active_events
                kept == {i \in LoitersOf(before, o.track_id) : clock' - before[i].timestamp <= event_max_age}
            IN  LoiteringFires(o) =>
                   /\ \E i \in LoitersOf(after, o.track_id) :
                          /\ after[i].timestamp = clock'
                          /\ after[i].state = "MONITORING"
                   /\ clock' > clock =>
                          Cardinality(LoitersOf(after, o.track_id)) = Cardinality(kept) + 1]_vars

\* Three loitering events of one track, of three different timestamps, in
\* the active set.
C31_Witness ==
    \E tid \in Ids(object_states) :
        /\ LoiteringFires(Get(object_states, tid))
        /\ Cardinality({event_layer.active_events[i].timestamp : i \in LoitersOf(event_layer.active_events, tid)}) >= 3

(***************************************************************************)
(* The abandoned-object detector: a backpack left alone, with its owner,   *)
(* carried, and out of the object set.                                     *)
(***************************************************************************)

\* Backpack 2 at (400, 400) on its own.
SceneBagAlone ==
    FeedAll(<<>>, <<<<Det(2, BagBox, HighConfidence, "backpack")>>>>, 0)

\* Backpack 2 with person 1 at (300, 100), over 150 px away.
SceneBagOwnerFar ==
    FeedAll(<<>>, <<<<Det(1, FarBox, HighConfidence, "person"), Det(2, BagBox, HighConfidence, "backpack")>>>>, 0)

\* Backpack 2 with person 1 standing over it.
SceneBagOwnerNear ==
    FeedAll(<<>>, <<<<Det(1, Box(380, 340, 420, 460), HighConfidence, "person"), Det(2, BagBox, HighConfidence, "backpack")>>>>, 0)

\* Backpack 2 carried four pixels a frame, for five frames.
SceneBagCarried ==
    FeedAll(<<>>, [n \in 1..5 |-> <<Det(2, Box(390 + 4 * n, 390, 410 + 4 * n, 410), HighConfidence, "backpack")>>], 0)

AbandonedScenes == {SceneBagAlone, SceneBagOwnerFar, SceneBagOwnerNear, SceneBagCarried, <<>>}

\* Seconds between updates: the same timestamp again, the next second, and
\* just over abandoned_static_time.
AbandonedSteps == {0, 1, 31}

AbandonedNext == \E scene \in AbandonedScenes, d \in AbandonedSteps : event_update(scene, d)

SpecAbandoned == Init /\ [][AbandonedNext]_vars

IsAbandoned(e) == e.event_type = "abandoned_object"

AbandonedEvents == SelectSeq(AllEvents(event_layer), IsAbandoned)

\* C32: an update that emits an abandoned-object event leaves the object
\* without a static timer, and after it any two abandoned-object events of
\* one object are stamped more than abandoned_static_time (30 s) apart.
C32_AbandonedEventsSpacedApart ==
    [][frame_count' # frame_count =>
        LET evs == SelectSeq(AllEvents(event_layer'), IsAbandoned)
        IN  /\ \A k \in 1..Len(object_states') :
                   AbandonedFires(event_layer.static_objects, object_states', object_states'[k], clock') =>
                       object_states'[k].track_id \notin DOMAIN event_layer'.static_objects
            /\ \A i, j \in 1..Len(evs) :
                   /\ i # j
                   /\ evs[i].track_ids = evs[j].track_ids
                   /\ evs[i].timestamp <= evs[j].timestamp
                   => evs[j].timestamp - evs[i].timestamp > abandoned_static_time]_vars

\* Two abandoned-object events of backpack 2.
C32_Witness ==
    \E i, j \in 1..Len(AbandonedEvents) :
        /\ i # j
        /\ AbandonedEvents[i].track_ids = <<2>>
        /\ AbandonedEvents[j].track_ids = <<2>>

(***************************************************************************)
(* The crowd-gathering detector on crowds around its two sizes.            *)
(***************************************************************************)

\* n persons standing side by side, tracks 1..n, each as its first update
\* leaves it.
SceneCrowd(n) ==
    [k \in 1..n |-> FeedAll(<<>>, <<<<Det(k, Standing(k), HighConfidence, "person")>>>>, 0)[1]]

CrowdSizes == {10, 20, 21}

CrowdSteps == {1, 61}

CrowdScenes == {SceneCrowd(n) : n \in CrowdSizes}

CrowdNext == \E scene \in CrowdScenes, d \in CrowdSteps : event_update(scene, d)

SpecCrowd == Init /\ [][CrowdNext]_vars

IsCrowd(e) == e.event_type = "crowd_gathering"

\* The update just taken left an active MONITORING crowd-gathering event
\* stamped with its timestamp.
CrowdEventEmitted ==
    \E i \in 1..Len(event_layer'.active_events) :
        /\ IsCrowd(event_layer'.active_events[i])
        /\ event_layer'.active_events[i].timestamp = clock'
        /\ event_layer'.active_events[i].state = "MONITORING"

\* C33 as stated: an update emits a MONITORING crowd-gathering event exactly
\* when the number of non-disappeared persons is at least 2 * crowd_min_size
\* (20).
C33_CrowdEventFromTwenty ==
    [][frame_count' # frame_count =>
        (Len(Persons(object_states')) >= 2 * crowd_min_size <=> CrowdEventEmitted)]_vars

\* C33: an update emits a MONITORING crowd-gathering event exactly when the
\* number of non-disappeared persons is more than 20.
C33_CrowdEventAboveTwenty ==
    [][frame_count' # frame_count =>
        (Len(Persons(object_states')) > crowd_emit_size <=> CrowdEventEmitted)]_vars

\* An active crowd-gathering event of the 21 persons present, on a second or
\* later update.
C33_Witness ==
    /\ \E i \in 1..Len(event_layer.active_events) :
           /\ IsCrowd(event_layer.active_events[i])
           /\ Len(event_layer.active_events[i].track_ids) = 21
    /\ Len(Persons(object_states)) = 21
    /\ frame_count >= 2

(***************************************************************************)
(* The speed and history factors, checked under SpecSeverity.              *)
(***************************************************************************)

\* C34 as stated: whenever the object's is_accelerating flag is set the
\* speed factor is 0.7, whatever its velocity magnitude.
C34_AcceleratingScoresSevenTenths ==
    severity_ret # <<>> /\ severity_ret.object_state.is_accelerating =>
        severity_ret.factors.speed = 700

\* C34: when the object's is_accelerating flag is set and its velocity
\* magnitude is neither below 5 px/s nor above the high-speed threshold, the
\* speed factor is 0.7; below 5 px/s it is 0.6, and above the threshold it is
\* at least 0.6.
C34_AcceleratingMidRange ==
    severity_ret # <<>> /\ severity_ret.object_state.is_accelerating =>
        LET o == severity_ret.object_state
        IN  /\ ~SpeedBelow(o, 5) /\ ~SpeedAbove(o, high_speed_threshold) => severity_ret.factors.speed = 700
            /\ SpeedBelow(o, 5) => severity_ret.factors.speed = 600
            /\ SpeedAbove(o, high_speed_threshold) => severity_ret.factors.speed >= 600

\* A return for an accelerating object at 50 px/s.
C34_Witness ==
    /\ severity_ret # <<>>
    /\ severity_ret.object_state.is_accelerating
    /\ ~SpeedBelow(severity_ret.object_state, 5)
    /\ ~SpeedAbove(severity_ret.object_state, high_speed_threshold)
    /\ severity_ret.factors.speed = 700

\* What a compute_severity call returned, and for which track.
Returned(ret) ==
    IF ret = <<>> THEN <<>> ELSE <<ret.object_state.track_id, ret.score, ret.factors>>

\* C35: a compute_severity call leaves every track's violation history as it
\* was, and for a track without recorded violations it returns the history
\* factor of the lowest tier (0.1), whatever the score it computes.
C35_HistoryFedOnlyByRecordViolation ==
    [][Returned(severity_ret') # Returned(severity_ret) =>
        /\ severity_engine' = severity_engine
        /\ severity_ret'.object_state.track_id \notin DOMAIN severity_engine =>
               severity_ret'.factors.history = 100]_vars

\* A CRITICAL score returned for track 2, which has no recorded violation
\* though violations of track 1 have been recorded: its history factor is 0.1.
C35_Witness ==
    /\ severity_ret # <<>>
    /\ severity_ret.object_state.track_id = 2
    /\ severity_ret.severity = "CRITICAL"
    /\ severity_engine # <<>>
    /\ 2 \notin DOMAIN severity_engine
    /\ severity_ret.factors.history = 100

(***************************************************************************)
(* The spatial engine's bookkeeping on the object states.                  *)
(***************************************************************************)

\* C36: after a spatial update, for every non-disappeared object,
\* zones_entered contains every active zone whose polygon contains its
\* centroid, and current_zone is the first such zone in insertion order, or
\* None when no active zone contains the centroid.
C36_ZonesEnteredAndCurrentZone ==
    [][(frame_count' # frame_count /\ context_engine' # <<>>) =>
        \A k \in 1..Len(context_engine') :
            LET o == context_engine'[k]
                current_zones == find_zones_containing_point(spatial_engine'.zones, get_centroid(o))
            IN  ~o.disappeared =>
                   /\ Range(current_zones) \subseteq o.zones_entered
                   /\ o.current_zone = IF current_zones = <<>> THEN None ELSE current_zones[1]]_vars

(***************************************************************************)
(* Crowd-limit zones of one and of two places; one, two or three persons   *)
(* inside, in either order of tracks.                                      *)
(***************************************************************************)

CrowdLimitMaxFrames == 3

CrowdLimitZoneChoices ==
    {[zone_id |-> "booth", polygon |-> Square(250, 50, 350, 150),
      zone_type |-> "crowd_limit", kwargs |-> [ZoneDefaults EXCEPT !.max_occupancy = 1]],
     [zone_id |-> "plaza", polygon |-> Square(220, 40, 380, 160),
      zone_type |-> "crowd_limit", kwargs |-> [ZoneDefaults EXCEPT !.max_occupancy = 2]]}

CrowdLimitFrames ==
    {<<Det(1, FarBox, HighConfidence, "person")>>,
     <<Det(1, FarBox, HighConfidence, "person"), Det(2, FarBox, HighConfidence, "person")>>,
     <<Det(2, FarBox, HighConfidence, "person"), Det(1, FarBox, HighConfidence, "person")>>,
     <<Det(3, FarBox, HighConfidence, "person"), Det(1, PersonBox, HighConfidence, "person")>>}

CrowdLimitSteps == {3}

CrowdLimitNext ==
    \/ \E z \in CrowdLimitZoneChoices : configure_zone(z)
    \/ \E dets \in CrowdLimitFrames, d \in CrowdLimitSteps :
          AIReasoningAgent_process_frame(dets, d, CrowdLimitMaxFrames)

SpecCrowdLimit == Init /\ [][CrowdLimitNext]_vars

\* The crowd-limit violations among vs, as <<track, zone, severity>>.
CrowdViolations(vs) ==
    {<<vs[i].track_id, vs[i].zone_id, vs[i].severity>> :
        i \in {j \in 1..Len(vs) : vs[j].violation_type = "crowd_limit_exceeded"}}

\* What the frame's final occupancy calls for: a violation for every
\* non-disappeared object inside a zone whose final occupancy exceeds
\* max_occupancy, with the severity of that final count.
CrowdViolationsOfFinalCount(zones, objs) ==
    {<<objs[p[1]].track_id, zones[p[2]].zone_id,
       <<5 * zones[p[2]].current_occupancy, 10 * zones[p[2]].max_occupancy>>>> :
        p \in {q \in (1..Len(objs)) \X (1..Len(zones)) :
                 /\ ~objs[q[1]].disappeared
                 /\ zones[q[2]].zone_id \in Range(find_zones_containing_point(zones, get_centroid(objs[q[1]])))
                 /\ zones[q[2]].current_occupancy > zones[q[2]].max_occupancy}}

\* C37: the crowd-limit violations of an update are those of the frame's
\* final occupancy: every object inside a zone whose final occupancy exceeds
\* max_occupancy has one, with the severity of the final count, whatever the
\* order of the tracks.
C37_CrowdLimitOnFinalOccupancy ==
    [][frame_count' # frame_count =>
        CrowdViolations(result'.spatial_violations)
            = CrowdViolationsOfFinalCount(spatial_engine'.zones, context_engine')]_vars

(***************************************************************************)
(* Two threads: one in process_frame, one in export_event_report.          *)
(*                                                                         *)
(* export_event_report takes neither the agent's lock nor the event        *)
(* layer's: it walks active_events.values() and then resolved_events while *)
(* process_frame may run.  process_frame is taken as one step, the export  *)
(* one event at a time.  A dict whose size changed under the iterator      *)
(* makes the next step raise RuntimeError; when the size is the same but   *)
(* the entries are not, the iterator yields some entry of the dict.        *)
(***************************************************************************)

ExportMaxFrames == 3

ExportZoneChoices == {z \in AgentZoneChoices : z.zone_id = "hall"}

ExportFrames == {<<Det(1, FarBox, HighConfidence, "person")>>}

\* Seconds between frames: three, and just over max_age.
ExportSteps == {3, 61}

IdsOf(events) == [i \in 1..Len(events) |-> events[i].event_id]

\* Lines 431-438: report and the iterator over active_events.values().
export_begin ==
    /\ ex.pc = "idle"
    /\ frame_count > 0
    /\ ex' = [pc |-> "active", i |-> 0, size |-> Len(event_layer.active_events),
              snapshot |-> IdsOf(event_layer.active_events),
              active |-> <<>>, resolved |-> <<>>, raised |-> None]
    /\ UNCHANGED <<engineVars, callVars, pf, cl, agent_lock, ctx_lock, stabVars, sevVars>>

\* One turn of the loop over the active events (lines 438-448).
export_active_next ==
    /\ ex.pc = "active"
    /\ IF Len(event_layer.active_events) # ex.size
         THEN ex' = [IdleExport EXCEPT !.raised = "RuntimeError"]
         ELSE IF ex.i >= ex.size
           THEN ex' = [ex EXCEPT !.pc = "resolved", !.i = 0]
           ELSE \E j \in {k \in 1..ex.size :
                            IdsOf(event_layer.active_events) = ex.snapshot => k = ex.i + 1} :
                    ex' = [ex EXCEPT !.i = @ + 1,
                                     !.active = Append(@, event_layer.active_events[j].event_id)]
    /\ UNCHANGED <<engineVars, callVars, pf, cl, agent_lock, ctx_lock, stabVars, sevVars>>

\* One turn of the loop over the resolved events (lines 451-461), and the
\* write of the report.
export_resolved_next ==
    /\ ex.pc = "resolved"
    /\ ex' = IF ex.i >= Len(event_layer.resolved_events)
               THEN [ex EXCEPT !.pc = "idle"]
               ELSE [ex EXCEPT !.i = @ + 1,
                               !.resolved = Append(@, event_layer.resolved_events[ex.i + 1].event_id)]
    /\ UNCHANGED <<engineVars, callVars, pf, cl, agent_lock, ctx_lock, stabVars, sevVars>>

ExportNext ==
    \/ \E z \in ExportZoneChoices : configure_zone(z)
    \/ \E dets \in ExportFrames, d \in ExportSteps :
          AIReasoningAgent_process_frame(dets, d, ExportMaxFrames)
    \/ export_begin
    \/ export_active_next
    \/ export_resolved_next

SpecExport == Init /\ [][ExportNext]_vars

\* C38: export_event_report running concurrently with process_frame never
\* has the same event in its active and in its resolved list, and the active
\* set is not modified while the export iterates it.
C38_ExportSeesConsistentSnapshot ==
    [][/\ ex.pc = "active" =>
              IdsOf(event_layer'.active_events) = IdsOf(event_layer.active_events)
       /\ Range(ex'.active) \cap Range(ex'.resolved) = {}]_vars

(***************************************************************************)
(* The stabilizer's lock over time, checked under SpecStab.                *)
(***************************************************************************)

\* C39: with the default thresholds a track locked to X stays locked to X
\* over each of the first seven updates after the one that locked it,
\* whatever class is fed: while fewer than seven updates have started locked
\* and returned X since the lock, the next one leaves the track locked to X,
\* so the eighth update after the lock is the earliest that can unlock.
C39_LockHeldSevenUpdates ==
    [][\A t \in StabTrackIds :
          (/\ t \in DOMAIN stab_tracks
           /\ t \in DOMAIN stab_tracks'
           /\ stab_tracks[t].locked_class # None
           /\ stab_obs[t].streak < unlock_threshold - 1)
          => stab_tracks'[t].locked_class = stab_tracks[t].locked_class]_vars

\* A track unlocked by the eighth update after the one that locked it: the
\* window holds the last two observations of the locking run and eight
\* contradictions.
C39_Witness ==
    \E t \in StabTrackIds :
        /\ StabLast(t)
        /\ stab_obs[t].before # None
        /\ ~stab_ret.is_locked
        /\ Len(stab_obs[t].fed) = history_size
        /\ \A i \in 1..2 : stab_obs[t].fed[i] = stab_obs[t].before
        /\ \A i \in 3..history_size : stab_obs[t].fed[i] # stab_obs[t].before

(***************************************************************************)
(* The two readings of the critical alerts, checked under SpecAgent.       *)
(***************************************************************************)

\* C40: after a process_frame call, and before the next frame,
\* get_critical_alerts() returns the same set of events as the call's
\* critical_alerts.
C40_CriticalAlertsAgree ==
    (frame_count > 0 /\ result.raised = None) =>
        EventIds(get_critical_events(event_layer)) = EventIds(result.critical_alerts)

====
